---- MODULE Spec2Model ----
(***************************************************************************)
(* Community-Bot-Manager: the spam / flood / repetition detector, its      *)
(* rolling-window caches, the warning ledger and the escalation code.      *)
(*                                                                         *)
(* Time is the wall clock Date.now() in milliseconds (variable now).       *)
(* A message body is a sequence of one-character strings.                  *)
(* A falsy configuration number (unset, 0) is written 0.                   *)
(***************************************************************************)
EXTENDS Integers, Sequences, FiniteSets, TLC

VARIABLES
    now,                  \* Date.now(), ms
    ticks,                \* how many times the clock has advanced
    groupsCache,          \* storage.js groupsCache: groupId -> group
    warningsCache,        \* storage.js warningsCache: groupId -> userId -> record
    warningsFile,         \* content of data/warnings.json on disk
    messageCache,         \* spamDetector.js messageCache (NodeCache, stdTTL 60)
    repeatedMessageCache, \* spamDetector.js repeatedMessageCache (stdTTL 300)
    floodLog,             \* history: every time checkMessageFlood ran, per user
    streak,               \* history: current run of equal texts given to checkRepeatedMessage
    last,                 \* history: the last operation and what it returned
    sent,                 \* history: the messages the last operation tried to send
    handlers,             \* the running handleSpamDetection calls and where each waits
    defaultConfig,        \* defaults.js DEFAULT_CONFIG.moderation, one object
    sharing,              \* the groups whose config.moderation is that very object
    configCache,          \* configManager.js configCache: groupId -> config
    lastUsedCache,        \* everyone.js lastUsedCache: groupId -> Date.now() of the last announcement
    everyoneModule,       \* which of the repository's handleEveryoneCommand modules is loaded
    onboardingSessionsCache, \* storage.js onboardingSessionsCache: adminId -> session
    adminSessionsCache,   \* storage.js adminSessionsCache: adminId -> activeGroupId
    received,             \* the message handleMessage has been given
    announcers            \* the running handleEveryoneCommand calls and where each waits

\* the admin sessions, the message at hand and the running announcements
sessionVars == <<onboardingSessionsCache, adminSessionsCache, received, announcers>>

\* the configuration stores and the announcement cooldown
configVars == <<defaultConfig, sharing, configCache, lastUsedCache, everyoneModule,
                sessionVars>>

vars == <<now, ticks, groupsCache, warningsCache, warningsFile, messageCache,
          repeatedMessageCache, floodLog, streak, last, sent, handlers,
          defaultConfig, sharing, configCache, lastUsedCache, everyoneModule,
          onboardingSessionsCache, adminSessionsCache, received, announcers>>

(***************************************************************************)
(* Bounds of the model.                                                    *)
(***************************************************************************)
MaxTicks == 2
MaxWarnings == 4
MaxFloodCalls == 21
MaxRepeatCalls == 6
MaxMessages == 2
MaxBurstMessages == 16
MaxLedgerOps == 4
MaxGroupMessages == 4
MaxHistoryCalls == 11
MaxHistoryTicks == 1
MaxHandlers == 3
MaxConfigOps == 4
MaxLinkOps == 4
MaxEveryoneOps == 4
MaxAnnouncers == 2
MaxFailureMessages == 3

MaxRoutedMessages == 3

MaxDMOps == 5

Groups == {"g1", "g2"}
Users == {"u1", "u2"}
Admins == <<"a1", "a2">>

(***************************************************************************)
(* Generic helpers: JavaScript objects as functions with a finite domain.  *)
(***************************************************************************)
Put(f, k, v) == [x \in (DOMAIN f) \cup {k} |-> IF x = k THEN v ELSE f[x]]

Del(f, k) == [x \in (DOMAIN f) \ {k} |-> f[x]]

EmptyObject == [x \in {} |-> 0]

Range(s) == {s[i] : i \in 1..Len(s)}

\* a || b on numbers: a falsy (0, unset) first operand gives the second
OrDefault(a, b) == IF a = 0 THEN b ELSE a

(***************************************************************************)
(* storage.js (stored as src/src/utils/permissions.js from line 71 on)     *)
(***************************************************************************)
\* getGroup(groupId) is not null
HasGroup(groups, groupId) == groupId \in DOMAIN groups

ZeroWarnings == [count |-> 0, history |-> <<>>]

GetWarnings(cache, groupId, userId) ==
    IF groupId \notin DOMAIN cache \/ userId \notin DOMAIN cache[groupId]
    THEN ZeroWarnings
    ELSE cache[groupId][userId]

\* the record replaced by a first warning, whatever it held
StorageAddWarning_Overwrite(cache, groupId, userId, reason, ts) ==
    LET grp == IF groupId \in DOMAIN cache THEN cache[groupId] ELSE EmptyObject
    IN  Put(cache, groupId,
            Put(grp, userId, [count |-> 1,
                              history |-> <<[reason |-> reason, timestamp |-> ts]>>]))

\* the in-memory part of addWarning: lines 258-276
StorageAddWarning_NoPush(cache, groupId, userId, reason, ts) ==
    LET old == GetWarnings(cache, groupId, userId)
        grp == IF groupId \in DOMAIN cache THEN cache[groupId] ELSE EmptyObject
    IN  Put(cache, groupId,
            Put(grp, userId, [count |-> old.count + 1, history |-> old.history]))

StorageAddWarning(cache, groupId, userId, reason, ts) ==
    LET grp0 == IF groupId \in DOMAIN cache THEN cache[groupId] ELSE EmptyObject
        rec0 == IF userId \in DOMAIN grp0 THEN grp0[userId] ELSE ZeroWarnings
        rec1 == [count   |-> rec0.count + 1,
                 history |-> Append(rec0.history,
                                    [reason |-> reason, timestamp |-> ts])]
    IN  Put(cache, groupId, Put(grp0, userId, rec1))

\* every record of the group deleted with the user's
StorageClearWarnings_WholeGroup(cache, groupId, userId) ==
    IF groupId \notin DOMAIN cache \/ userId \notin DOMAIN cache[groupId]
    THEN cache
    ELSE Put(cache, groupId, EmptyObject)

\* the record reset in place, not deleted
StorageClearWarnings_ResetInPlace(cache, groupId, userId) ==
    IF groupId \notin DOMAIN cache \/ userId \notin DOMAIN cache[groupId]
    THEN cache
    ELSE Put(cache, groupId, Put(cache[groupId], userId, ZeroWarnings))

\* the in-memory part of clearWarnings: lines 291-295
StorageClearWarnings(cache, groupId, userId) ==
    IF groupId \notin DOMAIN cache \/ userId \notin DOMAIN cache[groupId]
    THEN cache
    ELSE Put(cache, groupId, Del(cache[groupId], userId))

\* safeWriteJSON(WARNINGS_FILE, cache): the rename is atomic, so a failed
\* write leaves the file as it was
SafeWriteJSON(file, data, writeOk) == IF writeOk THEN data ELSE file

(***************************************************************************)
(* Text: toLowerCase, trim, includes and the URL pattern of containsLink.  *)
(***************************************************************************)
UpperChars == <<"A", "B", "C", "D", "E", "F", "G", "H", "I", "J", "K", "L", "M", "N", "O", "P", "Q", "R", "S", "T", "U", "V", "W", "X", "Y", "Z">>
LowerChars == <<"a", "b", "c", "d", "e", "f", "g", "h", "i", "j", "k", "l", "m", "n", "o", "p", "q", "r", "s", "t", "u", "v", "w", "x", "y", "z">>
DigitChars == {"0", "1", "2", "3", "4", "5", "6", "7", "8", "9"}

ToLowerChar(c) ==
    IF \E i \in 1..Len(UpperChars) : UpperChars[i] = c
    THEN LowerChars[CHOOSE i \in 1..Len(UpperChars) : UpperChars[i] = c]
    ELSE c

ToLowerCase(s) == [i \in 1..Len(s) |-> ToLowerChar(s[i])]

\* \s of the pattern and the characters trim() strips
IsSpace(c) == c \in {" ", "\t", "\n"}

RECURSIVE TrimStart(_)
TrimStart(s) ==
    IF s # <<>> /\ IsSpace(Head(s)) THEN TrimStart(Tail(s)) ELSE s

RECURSIVE TrimEnd(_)
TrimEnd(s) ==
    IF s # <<>> /\ IsSpace(s[Len(s)]) THEN TrimEnd(SubSeq(s, 1, Len(s) - 1)) ELSE s

Trim(s) == TrimEnd(TrimStart(s))

\* p occurs in s starting at index i
StartsAt(s, i, p) ==
    /\ i >= 1
    /\ i + Len(p) - 1 <= Len(s)
    /\ \A k \in 1..Len(p) : s[i + k - 1] = p[k]

Includes(s, p) == \E i \in 1..(Len(s) + 1) : StartsAt(s, i, p)

\* [a-zA-Z0-9-] under the i flag
IsDomainChar(c) ==
    \/ ToLowerChar(c) \in Range(LowerChars)
    \/ c \in DigitChars
    \/ c = "-"

TLDs == {<<"c", "o", "m">>, <<"n", "e", "t">>, <<"o", "r", "g">>, <<"i", "o">>, <<"c", "o">>, <<"a", "p", "p">>, <<"d", "e", "v">>, <<"x", "y", "z">>, <<"m", "e">>, <<"i", "n", "f", "o">>, <<"b", "i", "z">>}

\* a prefix followed by at least one non-space character: prefix[^\s]+
PrefixThenNonSpace(t, i, p) ==
    /\ StartsAt(t, i, p)
    /\ i + Len(p) <= Len(t)
    /\ ~IsSpace(t[i + Len(p)])

\* containsLink: spamDetector.js 75-78
ContainsLink(text) ==
    LET t == ToLowerCase(text)
    IN  \E i \in 1..Len(t) :
            \/ PrefixThenNonSpace(t, i, <<"h", "t", "t", "p", ":", "/", "/">>)
            \/ PrefixThenNonSpace(t, i, <<"h", "t", "t", "p", "s", ":", "/", "/">>)
            \/ PrefixThenNonSpace(t, i, <<"w", "w", "w", ".">>)
            \/ /\ IsDomainChar(t[i])
               /\ \E tld \in TLDs : StartsAt(t, i + 1, <<".">> \o tld)

\* line 88 without the two toLowerCase calls
IsWhitelistedDomain_CaseSensitive(text, allowedDomains) ==
    \E k \in 1..Len(allowedDomains) : Includes(text, allowedDomains[k])

\* isWhitelistedDomain: spamDetector.js 83-89
IsWhitelistedDomain(text, allowedDomains) ==
    IF Len(allowedDomains) = 0
    THEN FALSE
    ELSE \E k \in 1..Len(allowedDomains) :
            Includes(ToLowerCase(text), ToLowerCase(allowedDomains[k]))

\* md5 of the lower-cased, trimmed body; md5 is taken to be collision free, so
\* the digest is written as the text it was computed from
MessageHash_NoTrim(messageBody) == ToLowerCase(messageBody)

MessageHash(messageBody) == Trim(ToLowerCase(messageBody))

(***************************************************************************)
(* The message bodies the model sends.                                     *)
(***************************************************************************)
BodyOk == <<"o", "k">>
BodyHello == <<"h", "e", "l", "l", "o">>
BodyHelloVariant == <<" ", "H", "e", "l", "l", "o">>
BodyWorld == <<"w", "o", "r", "l", "d">>
BodyLink == <<"x", ".", "i", "o", "/", "s", "p", "a", "m">>
BodyBlank == <<" ", " ", " ", " ", " ">>
BodyOtherLink == <<"s", "e", "e", " ", "Y", ".", "M", "E">>

Bodies == {BodyOk, BodyHello, BodyHelloVariant, BodyWorld, BodyLink, BodyBlank,
           BodyOtherLink}

AllowXIo == <<<<"X", ".", "I", "O">>>>
AllowLists == {<<>>, AllowXIo}

\* the text functions applied once to each body the model sends
TextTable ==
    [b \in Bodies |->
        [hasLink     |-> ContainsLink(b),
         whitelisted |-> [a \in AllowLists |-> IsWhitelistedDomain(b, a)],
         hash        |-> MessageHash(b),
         trimmed     |-> Trim(b)]]

\* the lower-cased, trimmed text of each body, for the properties
Normalised == [b \in Bodies |-> Trim(ToLowerCase(b))]

(***************************************************************************)
(* NodeCache as spamDetector.js uses it: set() stamps the entry with       *)
(* now + stdTTL seconds, get() of an entry whose stamp has passed gives    *)
(* undefined and drops the entry, and a timer drops expired entries.       *)
(***************************************************************************)
FloodTTL == 60
RepeatTTL == 300

\* an entry given up 30 s before its stamp
Expired_Early(cache, key, t) == key \in DOMAIN cache /\ cache[key].t - 30000 < t

Expired(cache, key, t) == key \in DOMAIN cache /\ cache[key].t < t

\* cache.get(key) || []
CacheGetOrEmpty(cache, key, t) ==
    IF key \in DOMAIN cache /\ ~Expired(cache, key, t) THEN cache[key].v ELSE <<>>

\* what get() leaves behind
CacheAfterGet(cache, key, t) ==
    IF Expired(cache, key, t) THEN Del(cache, key) ELSE cache

CacheSet(cache, key, value, t, stdTTL) ==
    Put(cache, key, [v |-> value, t |-> t + stdTTL * 1000])

\* the checkperiod timer
CacheCheckData(cache, t) ==
    [k \in {x \in DOMAIN cache : ~Expired(cache, x, t)} |-> cache[k]]

(***************************************************************************)
(* spamDetector.js: checkMessageFlood, 94-119                              *)
(***************************************************************************)
FloodWindowMs == 60000
BurstWindowMs == 5000
BurstThreshold == 15
DefaultExtendedThreshold == 20

\* the filter with <= in place of <
Younger_Inclusive(seq, t, windowMs) == SelectSeq(seq, LAMBDA ts : t - ts <= windowMs)

Younger(seq, t, windowMs) == SelectSeq(seq, LAMBDA ts : t - ts < windowMs)

\* line 118
FloodDecision_Or(recentLen, last5Len, extendedThreshold) ==
    recentLen >= extendedThreshold \/ last5Len >= BurstThreshold

FloodDecision(recentLen, last5Len, extendedThreshold) ==
    recentLen >= extendedThreshold /\ last5Len >= BurstThreshold

\* the 60 s filter of line 104 left out
CheckMessageFlood_NoFilter(cache, userId, maxMessages, t) ==
    LET messageHistory == Append(CacheGetOrEmpty(cache, userId, t), t)
        extendedThreshold == OrDefault(maxMessages, DefaultExtendedThreshold)
        last5Seconds == Younger(messageHistory, t, BurstWindowMs)
    IN  [cache |-> CacheSet(CacheAfterGet(cache, userId, t), userId,
                            messageHistory, t, FloodTTL),
         flag  |-> FloodDecision(Len(messageHistory), Len(last5Seconds),
                                 extendedThreshold)]

\* the result and the cache it leaves
CheckMessageFlood(cache, userId, maxMessages, t) ==
    LET messageHistory == Append(CacheGetOrEmpty(cache, userId, t), t)
        recentMessages == Younger(messageHistory, t, FloodWindowMs)
        extendedThreshold == OrDefault(maxMessages, DefaultExtendedThreshold)
        last5Seconds == Younger(recentMessages, t, BurstWindowMs)
    IN  [cache |-> CacheSet(CacheAfterGet(cache, userId, t), userId,
                            recentMessages, t, FloodTTL),
         flag  |-> FloodDecision(Len(recentMessages), Len(last5Seconds),
                                 extendedThreshold)]

(***************************************************************************)
(* spamDetector.js: checkRepeatedMessage, 124-158                          *)
(***************************************************************************)
MinBodyLength == 5
HistoryCap == 10
DefaultCheckCount == 5

\* the newest entry dropped in place of the oldest
PushCapped_DropNewest(messageHistory, messageHash) ==
    LET pushed == Append(messageHistory, messageHash)
    IN  IF Len(pushed) > HistoryCap THEN SubSeq(pushed, 1, HistoryCap) ELSE pushed

\* lines 137-142: push, then shift when longer than the cap
PushCapped(messageHistory, messageHash) ==
    LET pushed == Append(messageHistory, messageHash)
    IN  IF Len(pushed) > HistoryCap THEN Tail(pushed) ELSE pushed

\* lines 148-157
AllSameTail(messageHistory, checkCount) ==
    IF Len(messageHistory) >= checkCount
    THEN LET lastMessages == SubSeq(messageHistory,
                                    Len(messageHistory) - checkCount + 1,
                                    Len(messageHistory))
         IN  \A i \in 1..Len(lastMessages) : lastMessages[i] = lastMessages[1]
    ELSE FALSE

\* the length test of line 129 made after the push and the set
CheckRepeatedMessage_LateLengthTest(cache, userId, messageBody, maxRepeated, t) ==
    LET history2 == PushCapped(CacheGetOrEmpty(cache, userId, t),
                               TextTable[messageBody].hash)
        cache2 == CacheSet(CacheAfterGet(cache, userId, t), userId, history2, t,
                           RepeatTTL)
    IN  IF Len(messageBody) < MinBodyLength
        THEN [cache |-> cache2, flag |-> FALSE]
        ELSE [cache |-> cache2,
              flag  |-> AllSameTail(history2,
                                    OrDefault(maxRepeated, DefaultCheckCount))]

\* a short body that empties the history of the user
CheckRepeatedMessage_ShortClears(cache, userId, messageBody, maxRepeated, t) ==
    LET messageHistory == CacheGetOrEmpty(cache, userId, t)
        afterGet == CacheAfterGet(cache, userId, t)
    IN  IF Len(messageBody) < MinBodyLength
        THEN [cache |-> CacheSet(afterGet, userId, <<>>, t, RepeatTTL),
              flag |-> FALSE]
        ELSE LET history2 == PushCapped(messageHistory, TextTable[messageBody].hash)
             IN  [cache |-> CacheSet(afterGet, userId, history2, t, RepeatTTL),
                  flag  |-> AllSameTail(history2,
                                        OrDefault(maxRepeated, DefaultCheckCount))]

\* checkRepeatedMessage(userId, messageBody, maxRepeated), 124-158
CheckRepeatedMessage(cache, userId, messageBody, maxRepeated, t) ==
    LET messageHistory == CacheGetOrEmpty(cache, userId, t)
        afterGet == CacheAfterGet(cache, userId, t)
    IN  IF Len(messageBody) < MinBodyLength
        THEN [cache |-> afterGet, flag |-> FALSE]
        ELSE LET history2 == PushCapped(messageHistory, TextTable[messageBody].hash)
             IN  [cache |-> CacheSet(afterGet, userId, history2, t, RepeatTTL),
                  flag  |-> AllSameTail(history2,
                                        OrDefault(maxRepeated, DefaultCheckCount))]

(***************************************************************************)
(* warningSystem.js (stored as src/unnamed/part_000)                       *)
(***************************************************************************)
DefaultThreshold == 3

\* line 35
ResolveThreshold(groups, groupId) ==
    IF HasGroup(groups, groupId)
    THEN OrDefault(groups[groupId].maxWarningsBeforeAction, DefaultThreshold)
    ELSE DefaultThreshold

\* line 38
ThresholdReached_Strict(count, threshold) == count > threshold

ThresholdReached(count, threshold) == count >= threshold

\* sendWarningDM, 97-133: one attempt, a failure is logged
\* text holds what lines 115-116 put into the message
SendWarningDM(userId, reason, strikeCount, threshold, dmOk) ==
    {[kind |-> "dm", to |-> userId, delivered |-> dmOk,
      text |-> <<reason, strikeCount, threshold>>]}

\* the loop of 200-208 without its inner try: the first failure ends it
NotifyAdminsThresholdReached_StopAtFailure(groups, groupId, adminOk) ==
    IF ~HasGroup(groups, groupId)
    THEN {}
    ELSE LET admins == groups[groupId].admins
             tried == {i \in 1..Len(admins) :
                          \A k \in 1..(i - 1) : admins[k] \in adminOk}
         IN  {[kind |-> "admin", to |-> admins[i], text |-> <<>>,
               delivered |-> admins[i] \in adminOk] : i \in tried}

\* notifyAdminsThresholdReached, 165-215: one attempt per admin of the list
NotifyAdminsThresholdReached(groups, groupId, adminOk) ==
    IF ~HasGroup(groups, groupId)
    THEN {}
    ELSE LET admins == groups[groupId].admins
         IN  {[kind |-> "admin", to |-> admins[i], text |-> <<>>,
               delivered |-> admins[i] \in adminOk] : i \in 1..Len(admins)}

\* sendGroupNotice, 138-160
SendGroupNotice(groups, groupId, noticeOk) ==
    IF HasGroup(groups, groupId) /\ groups[groupId].groupNoticesEnabled
    THEN {[kind |-> "notice", to |-> groupId, text |-> <<>>,
           delivered |-> noticeOk]}
    ELSE {}

\* a failed DM ending the call as a failure
AddWarning_DMFailureAborts(cache, file, groups, groupId, userId, reason, t, io) ==
    LET cache1 == StorageAddWarning(cache, groupId, userId, reason, t)
        file1 == SafeWriteJSON(file, cache1, io.writeOk)
        count == GetWarnings(cache1, groupId, userId).count
        threshold == ResolveThreshold(groups, groupId)
        thresholdReached == ThresholdReached(count, threshold)
    IN  IF ~io.writeOk
        THEN [cache |-> cache1, file |-> file1, success |-> FALSE, count |-> 0,
              threshold |-> 0, thresholdReached |-> FALSE, sent |-> {}]
        ELSE [cache |-> cache1, file |-> file1, success |-> TRUE, count |-> count,
              threshold |-> threshold, thresholdReached |-> thresholdReached,
              sent |-> SendWarningDM(userId, reason, count, threshold, io.dmOk) \cup
                       (IF thresholdReached /\ io.dmOk
                        THEN NotifyAdminsThresholdReached(groups, groupId, io.adminOk)
                        ELSE {})]

\* addWarning, 20-61. io = [writeOk, dmOk, adminOk, noticeOk, botAdmin]
AddWarning(cache, file, groups, groupId, userId, reason, t, io) ==
    LET cache1 == StorageAddWarning(cache, groupId, userId, reason, t)
        file1 == SafeWriteJSON(file, cache1, io.writeOk)
        count == GetWarnings(cache1, groupId, userId).count
        threshold == ResolveThreshold(groups, groupId)
        thresholdReached == ThresholdReached(count, threshold)
    IN  IF ~io.writeOk
        THEN [cache |-> cache1, file |-> file1, success |-> FALSE, count |-> 0,
              threshold |-> 0, thresholdReached |-> FALSE, sent |-> {}]
        ELSE [cache |-> cache1, file |-> file1, success |-> TRUE, count |-> count,
              threshold |-> threshold, thresholdReached |-> thresholdReached,
              sent |-> SendWarningDM(userId, reason, count, threshold, io.dmOk) \cup
                       (IF thresholdReached
                        THEN NotifyAdminsThresholdReached(groups, groupId, io.adminOk)
                        ELSE {})]

\* the sum of f[k] over the keys in S
RECURSIVE SumOver(_, _)
SumOver(f, S) ==
    IF S = {} THEN 0
    ELSE LET k == CHOOSE x \in S : TRUE IN f[k] + SumOver(f, S \ {k})

\* Object.entries(warnings) pairs whose value is a warning record; the
\* value under "count" is a number and under "history" an array, and
\* neither has a history to map over
IsWarningRecordKey(k) == k \notin {"count", "history"}

\* getGroupWarningStats(groupId), 220-257. Line 221 calls the storage
\* getWarnings(groupId, userId) with userId left out, so the key looked up
\* is "undefined" and what comes back is one warning record, whose entries
\* the loop of 233-246 then walks as if they were users; line 242 throws
\* at the first entry that has no history array
GetGroupWarningStats(cache, groups, groupId) ==
    LET warnings == GetWarnings(cache, groupId, "undefined")
        threshold == ResolveThreshold(groups, groupId)
        keys == DOMAIN warnings
        counts == [k \in keys |-> warnings[k].count]
    IN  IF \E k \in keys : ~IsWarningRecordKey(k)
        THEN [threw |-> TRUE, stats |-> <<0, 0, 0>>]
        ELSE [threw |-> FALSE,
              stats |-> <<Cardinality(keys), SumOver(counts, keys),
                          Cardinality({k \in keys : counts[k] >= threshold})>>]

(***************************************************************************)
(* spamDetector.js: checkForSpam 23-70 and handleSpamDetection 163-219     *)
(***************************************************************************)
\* the reason code passed on as it is
ReasonText_Raw(reason) == reason

\* lines 207-211
ReasonText(reason) ==
    CASE reason = "link" -> "Posting unauthorized links"
      [] reason = "flood" -> "Message flooding"
      [] reason = "repeated" -> "Repeated messages"
      [] OTHER -> reason

\* a contact that cannot be resolved ending the call before the warning
HandleSpamDetection_ContactFailureAborts(cache, file, groups, groupId, userId, reason, t, io) ==
    LET w == AddWarning(cache, file, groups, groupId, userId, ReasonText(reason), t, io)
    IN  IF ~io.contactOk
        THEN [cache |-> cache, file |-> file, success |-> FALSE, count |-> 0,
              threshold |-> 0, thresholdReached |-> FALSE, deleted |-> FALSE,
              contact |-> FALSE, sent |-> {}]
        ELSE [cache |-> w.cache, file |-> w.file, success |-> w.success,
              count |-> w.count, threshold |-> w.threshold,
              thresholdReached |-> w.thresholdReached,
              deleted |-> io.botAdmin /\ io.deleteOk, contact |-> TRUE,
              sent |-> w.sent \cup SendGroupNotice(groups, groupId, io.noticeOk)]

\* handleSpamDetection: the contact, the delete, the warning and the group
\* notice. A getContact() that throws is caught at 169-177 and a fallback
\* contact used; a delete that throws is caught at 199-201 and leaves
\* deleted false; the warning of 210 follows in every case
HandleSpamDetection(cache, file, groups, groupId, userId, reason, t, io) ==
    LET w == AddWarning(cache, file, groups, groupId, userId, ReasonText(reason), t, io)
    IN  [cache |-> w.cache, file |-> w.file, success |-> w.success,
         count |-> w.count, threshold |-> w.threshold,
         thresholdReached |-> w.thresholdReached,
         deleted |-> io.botAdmin /\ io.deleteOk, contact |-> io.contactOk,
         sent |-> w.sent \cup SendGroupNotice(groups, groupId, io.noticeOk)]

\* lines 42-49
LinkRule(group, messageBody) ==
    /\ group.linkBlockingEnabled
    /\ TextTable[messageBody].hasLink
    /\ ~TextTable[messageBody].whitelisted[group.allowedDomains]

\* line 27 with the enabled test left out
SpamCheckOff_MissingOnly(groups, groupId) == ~HasGroup(groups, groupId)

\* line 27
SpamCheckOff(groups, groupId) ==
    ~HasGroup(groups, groupId) \/ ~groups[groupId].spamEnabled

\* line 52 with the forwarded test left out
FloodRuns_MediaOnly(isMedia, isForwarded) == ~isMedia

\* line 52
FloodRuns(isMedia, isForwarded) == ~isMedia /\ ~isForwarded

\* line 61
RepeatRuns(isMedia, messageBody) ==
    ~isMedia /\ Len(TextTable[messageBody].trimmed) > 0

\* the flood check made before the link check
Classify_FloodFirst(groups, mCache, rCache, groupId, userId, messageBody, isMedia, isForwarded, t) ==
    IF SpamCheckOff(groups, groupId)
    THEN [reason |-> "notSpam", mCache |-> mCache, rCache |-> rCache,
          floodRan |-> FALSE, repeatRan |-> FALSE]
    ELSE
    LET group == groups[groupId]
        floodRuns == FloodRuns(isMedia, isForwarded)
        f == CheckMessageFlood(mCache, userId, group.maxMessagesPerMinute, t)
        mCache1 == IF floodRuns THEN f.cache ELSE mCache
        repeatRuns == RepeatRuns(isMedia, messageBody)
        r == CheckRepeatedMessage(rCache, userId, messageBody,
                                  group.maxRepeatedMessages, t)
    IN  IF floodRuns /\ f.flag
        THEN [reason |-> "flood", mCache |-> mCache1, rCache |-> rCache,
              floodRan |-> TRUE, repeatRan |-> FALSE]
        ELSE IF LinkRule(group, messageBody)
        THEN [reason |-> "link", mCache |-> mCache1, rCache |-> rCache,
              floodRan |-> floodRuns, repeatRan |-> FALSE]
        ELSE IF repeatRuns /\ r.flag
        THEN [reason |-> "repeated", mCache |-> mCache1, rCache |-> r.cache,
              floodRan |-> floodRuns, repeatRan |-> TRUE]
        ELSE [reason |-> "notSpam", mCache |-> mCache1,
              rCache |-> IF repeatRuns THEN r.cache ELSE rCache,
              floodRan |-> floodRuns, repeatRan |-> repeatRuns]

\* the classification of checkForSpam and the tracker state it leaves
Classify(groups, mCache, rCache, groupId, userId, messageBody, isMedia, isForwarded, t) ==
    IF SpamCheckOff(groups, groupId)
    THEN [reason |-> "notSpam", mCache |-> mCache, rCache |-> rCache,
          floodRan |-> FALSE, repeatRan |-> FALSE]
    ELSE
    LET group == groups[groupId]
        floodRuns == FloodRuns(isMedia, isForwarded)
        f == CheckMessageFlood(mCache, userId, group.maxMessagesPerMinute, t)
        mCache1 == IF floodRuns THEN f.cache ELSE mCache
        repeatRuns == RepeatRuns(isMedia, messageBody)
        r == CheckRepeatedMessage(rCache, userId, messageBody,
                                  group.maxRepeatedMessages, t)
    IN  IF LinkRule(group, messageBody)
        THEN [reason |-> "link", mCache |-> mCache, rCache |-> rCache,
              floodRan |-> FALSE, repeatRan |-> FALSE]
        ELSE IF floodRuns /\ f.flag
        THEN [reason |-> "flood", mCache |-> mCache1, rCache |-> rCache,
              floodRan |-> TRUE, repeatRan |-> FALSE]
        ELSE IF repeatRuns /\ r.flag
        THEN [reason |-> "repeated", mCache |-> mCache1, rCache |-> r.cache,
              floodRan |-> floodRuns, repeatRan |-> TRUE]
        ELSE [reason |-> "notSpam", mCache |-> mCache1,
              rCache |-> IF repeatRuns THEN r.cache ELSE rCache,
              floodRan |-> floodRuns, repeatRan |-> repeatRuns]

(***************************************************************************)
(* History variables and inputs                                            *)
(***************************************************************************)
NoLast ==
    [seq |-> 0, op |-> "none", at |-> 0, group |-> "", user |-> "",
     body |-> <<>>, media |-> FALSE, fwd |-> FALSE, num |-> 0, ok |-> TRUE,
     flag |-> FALSE, reason |-> "", count |-> 0, threshold |-> 0,
     deleted |-> FALSE, floodRan |-> FALSE, repeatRan |-> FALSE,
     reached |-> FALSE, threw |-> FALSE, stats |-> <<0, 0, 0>>,
     contact |-> TRUE]

\* the run of equal texts (lower-cased, trimmed) at the end of what a user
\* has given to checkRepeatedMessage; texts shorter than 5 are not counted
SameText(a, b) == Normalised[a] = Normalised[b]

\* len counts the run; fresh counts the part of it in which no message came
\* more than 300 s after the one before
\* log lists every fingerprint recorded by HistoryCall; since counts the
\* entries of log recorded before the last gap of more than 300 s
\* short tells that a text shorter than 5 came after the first text of the
\* run
NoStreak == [body |-> <<>>, len |-> 0, fresh |-> 0, at |-> 0, log |-> <<>>,
             since |-> 0, short |-> FALSE]

StreakAfter(st, messageBody, t) ==
    IF Len(messageBody) < 5 THEN [st EXCEPT !.short = st.len > 0]
    ELSE LET same == st.len > 0 /\ SameText(st.body, messageBody)
             soon == t - st.at <= 300000
         IN  [body  |-> IF same THEN st.body ELSE messageBody,
              len   |-> IF same THEN st.len + 1 ELSE 1,
              fresh |-> IF same /\ soon THEN st.fresh + 1 ELSE 1,
              at    |-> t,
              log   |-> st.log,
              since |-> st.since,
              short |-> same /\ st.short]

LoggedAfter(st, messageBody, t) ==
    IF Len(messageBody) < 5 THEN st
    ELSE [StreakAfter(st, messageBody, t) EXCEPT
             !.log = Append(st.log, Normalised[messageBody]),
             !.since = IF st.len > 0 /\ t - st.at <= 300000
                       THEN st.since ELSE Len(st.log)]

\* outcomes of the file write, the sends and the delete
AllIO ==
    [writeOk : BOOLEAN, dmOk : BOOLEAN, adminOk : {{"a1", "a2"}, {"a2"}, {}},
     noticeOk : {FALSE}, botAdmin : {FALSE}, contactOk : {TRUE},
     deleteOk : {TRUE}]

MessageIO ==
    [writeOk : BOOLEAN, dmOk : {TRUE}, adminOk : {{"a1", "a2"}},
     noticeOk : {TRUE}, botAdmin : BOOLEAN, contactOk : {TRUE},
     deleteOk : {TRUE}]

\* the bot is an admin of the group; getContact() and message.delete(true)
\* each succeed or throw
FailureIO ==
    [writeOk : BOOLEAN, dmOk : {TRUE}, adminOk : {{"a1", "a2"}},
     noticeOk : {TRUE}, botAdmin : {TRUE}, contactOk : BOOLEAN,
     deleteOk : BOOLEAN]

\* defaults.js 55-60
DefaultRules ==
    <<"Be respectful to all members", "Stay on topic",
      "No spam or excessive links", "Follow group guidelines">>

\* a registered group: the fields of groupsCache[groupId] the code reads
GroupRecord(spam, links, allowed, perMinute, repeated, threshold, notices) ==
    [admins |-> Admins, spamEnabled |-> spam, linkBlockingEnabled |-> links,
     allowedDomains |-> allowed, maxMessagesPerMinute |-> perMinute,
     maxRepeatedMessages |-> repeated, maxWarningsBeforeAction |-> threshold,
     groupNoticesEnabled |-> notices, autoDeleteEnabled |-> FALSE,
     rules |-> DefaultRules, everyoneCooldown |-> 0]

\* defaults.js 12-25
DefaultGroup == GroupRecord(TRUE, FALSE, <<>>, 10, 3, 3, FALSE)

\* defaults.js 12-25 and 55-60: the fields of DEFAULT_CONFIG.moderation and
\* the rules array, the objects of DEFAULT_CONFIG that commands write to
DefaultModeration ==
    [linkBlockingEnabled |-> FALSE, maxWarningsBeforeAction |-> 3,
     rules |-> DefaultRules]

\* everyone who writes in a group: members and admins
Senders == Users \cup Range(Admins)

\* no message yet; a message is who sent it, where, and its body
NoMessage ==
    [n |-> 0, fromMe |-> FALSE, isDM |-> FALSE, group |-> "", from |-> "",
     body |-> <<>>]

\* a handleEveryoneCommand call: where it waits, for which message
Announcers == 1..MaxAnnouncers

IdleAnnouncer == [pc |-> "idle", group |-> "", user |-> "", admin |-> FALSE,
                  at |-> 0]

\* a handleSpamDetection call: where it waits and what addWarning gave it
Handlers == 1..MaxHandlers

IdleHandler == [pc |-> "idle", recorded |-> FALSE, ok |-> FALSE, count |-> 0,
                thresholdReached |-> FALSE]

InitBase ==
    /\ now = 0
    /\ ticks = 0
    /\ warningsCache = EmptyObject
    /\ warningsFile = EmptyObject
    /\ messageCache = EmptyObject
    /\ repeatedMessageCache = EmptyObject
    /\ floodLog = [u \in Senders |-> <<>>]
    /\ streak = [u \in Senders |-> NoStreak]
    /\ last = NoLast
    /\ sent = {}
    /\ handlers = [h \in Handlers |-> IdleHandler]
    /\ defaultConfig = DefaultModeration
    /\ sharing = {}
    /\ configCache = EmptyObject
    /\ lastUsedCache = EmptyObject
    /\ onboardingSessionsCache = EmptyObject
    /\ adminSessionsCache = EmptyObject
    /\ received = NoMessage
    /\ announcers = [h \in Announcers |-> IdleAnnouncer]

\* messageHandler.js imports ../commands/everyone.js
InitRest ==
    /\ InitBase
    /\ everyoneModule = "everyone.js"

(***************************************************************************)
(* Actions                                                                 *)
(***************************************************************************)
\* the clock advances by d ms
Tick(d) ==
    /\ ticks < MaxTicks
    /\ ticks' = ticks + 1
    /\ now' = now + d
    /\ UNCHANGED <<configVars, handlers, groupsCache, warningsCache, warningsFile, messageCache,
                   repeatedMessageCache, floodLog, streak, last, sent>>

\* the checkperiod timer of messageCache
CheckDataFlood ==
    /\ \E k \in DOMAIN messageCache : Expired(messageCache, k, now)
    /\ messageCache' = CacheCheckData(messageCache, now)
    /\ UNCHANGED <<configVars, handlers, now, ticks, groupsCache, warningsCache, warningsFile,
                   repeatedMessageCache, floodLog, streak, last, sent>>

\* the checkperiod timer of repeatedMessageCache
CheckDataRepeat ==
    /\ \E k \in DOMAIN repeatedMessageCache : Expired(repeatedMessageCache, k, now)
    /\ repeatedMessageCache' = CacheCheckData(repeatedMessageCache, now)
    /\ UNCHANGED <<configVars, handlers, now, ticks, groupsCache, warningsCache, warningsFile,
                   messageCache, floodLog, streak, last, sent>>

\* one call of checkMessageFlood(userId, maxMessages)
FloodCall(userId, maxMessages) ==
    LET f == CheckMessageFlood(messageCache, userId, maxMessages, now)
    IN  /\ last.seq < MaxFloodCalls
        /\ messageCache' = f.cache
        /\ floodLog' = [floodLog EXCEPT ![userId] = Append(@, now)]
        /\ last' = [NoLast EXCEPT !.seq = last.seq + 1, !.op = "checkMessageFlood",
                                  !.at = now, !.user = userId, !.num = maxMessages,
                                  !.flag = f.flag, !.floodRan = TRUE]
        /\ UNCHANGED <<configVars, handlers, now, ticks, groupsCache, warningsCache, warningsFile,
                       repeatedMessageCache, streak, sent>>

\* one call of checkRepeatedMessage(userId, messageBody, maxRepeated)
RepeatCall(userId, messageBody, maxRepeated) ==
    LET r == CheckRepeatedMessage(repeatedMessageCache, userId, messageBody,
                                  maxRepeated, now)
    IN  /\ last.seq < MaxRepeatCalls
        /\ repeatedMessageCache' = r.cache
        /\ streak' = [streak EXCEPT ![userId] = StreakAfter(@, messageBody, now)]
        /\ last' = [NoLast EXCEPT !.seq = last.seq + 1, !.op = "checkRepeatedMessage",
                                  !.at = now, !.user = userId, !.body = messageBody,
                                  !.num = maxRepeated, !.flag = r.flag,
                                  !.repeatRan = TRUE]
        /\ UNCHANGED <<configVars, handlers, now, ticks, groupsCache, warningsCache, warningsFile,
                       messageCache, floodLog, sent>>

\* one call of checkRepeatedMessage, every recorded fingerprint logged
HistoryCall(userId, messageBody, maxRepeated) ==
    LET r == CheckRepeatedMessage(repeatedMessageCache, userId, messageBody,
                                  maxRepeated, now)
    IN  /\ last.seq < MaxHistoryCalls
        /\ repeatedMessageCache' = r.cache
        /\ streak' = [streak EXCEPT ![userId] = LoggedAfter(@, messageBody, now)]
        /\ last' = [NoLast EXCEPT !.seq = last.seq + 1, !.op = "checkRepeatedMessage",
                                  !.at = now, !.user = userId, !.body = messageBody,
                                  !.num = maxRepeated, !.flag = r.flag,
                                  !.repeatRan = TRUE]
        /\ UNCHANGED <<configVars, handlers, now, ticks, groupsCache, warningsCache, warningsFile,
                       messageCache, floodLog, sent>>

\* warningSystem.addWarning(groupId, userId, reason, client)
WarnUser(groupId, userId, reason, io) ==
    LET w == AddWarning(warningsCache, warningsFile, groupsCache, groupId, userId,
                        reason, now, io)
    IN  /\ last.seq < MaxLedgerOps
        /\ GetWarnings(warningsCache, groupId, userId).count < MaxWarnings
        /\ warningsCache' = w.cache
        /\ warningsFile' = w.file
        /\ sent' = w.sent
        /\ last' = [NoLast EXCEPT !.seq = last.seq + 1, !.op = "addWarning",
                                  !.at = now, !.group = groupId, !.user = userId,
                                  !.reason = reason, !.ok = w.success,
                                  !.flag = w.thresholdReached, !.count = w.count,
                                  !.threshold = w.threshold]
        /\ UNCHANGED <<configVars, handlers, now, ticks, groupsCache, messageCache, repeatedMessageCache,
                       floodLog, streak>>

\* warningSystem.clearUserWarnings(groupId, userId)
ClearUserWarnings(groupId, userId, writeOk) ==
    LET had == groupId \in DOMAIN warningsCache /\ userId \in DOMAIN warningsCache[groupId]
        cache1 == StorageClearWarnings(warningsCache, groupId, userId)
    IN  /\ last.seq < MaxLedgerOps
        /\ warningsCache' = cache1
        /\ warningsFile' = IF had THEN SafeWriteJSON(warningsFile, cache1, writeOk)
                                  ELSE warningsFile
        /\ sent' = {}
        /\ last' = [NoLast EXCEPT !.seq = last.seq + 1, !.op = "clearWarnings",
                                  !.at = now, !.group = groupId, !.user = userId,
                                  !.ok = writeOk, !.flag = had /\ writeOk]
        /\ UNCHANGED <<configVars, handlers, now, ticks, groupsCache, messageCache, repeatedMessageCache,
                       floodLog, streak>>

\* warningSystem.getGroupWarningStats(groupId), as the DM stats command
\* calls it
GroupStats(groupId) ==
    LET r == GetGroupWarningStats(warningsCache, groupsCache, groupId)
    IN  /\ last.seq < MaxLedgerOps
        /\ sent' = {}
        /\ last' = [NoLast EXCEPT !.seq = last.seq + 1, !.op = "getGroupWarningStats",
                                  !.at = now, !.group = groupId,
                                  !.threw = r.threw, !.stats = r.stats]
        /\ UNCHANGED <<configVars, handlers, now, ticks, groupsCache, warningsCache, warningsFile,
                       messageCache, repeatedMessageCache, floodLog, streak>>

\* a group registered in this run: groupManager.js 44-55 builds its record
\* around getDefaultConfig, defaults.js 72-79, whose shallow spread hands out
\* DEFAULT_CONFIG.moderation itself; the record shows what that object holds
RegisteredGroup(moderation) ==
    [DefaultGroup EXCEPT !.linkBlockingEnabled = moderation.linkBlockingEnabled,
                         !.maxWarningsBeforeAction = moderation.maxWarningsBeforeAction,
                         !.rules = moderation.rules]

\* the bot meets a group it has no record of, groupManager.js 30-58
RegisterGroup(groupId) ==
    /\ last.seq < MaxConfigOps
    /\ ~HasGroup(groupsCache, groupId)
    /\ groupsCache' = Put(groupsCache, groupId, RegisteredGroup(defaultConfig))
    /\ sharing' = sharing \cup {groupId}
    /\ sent' = {}
    /\ last' = [NoLast EXCEPT !.seq = last.seq + 1, !.op = "registerGroup",
                              !.at = now, !.group = groupId]
    /\ UNCHANGED <<sessionVars, defaultConfig, configCache, lastUsedCache, everyoneModule, handlers, now, ticks,
                   warningsCache, warningsFile, messageCache, repeatedMessageCache,
                   floodLog, streak>>

\* group.config.moderation.maxWarningsBeforeAction = threshold, written
\* through the object getGroup returned: every record holding the same
\* moderation object shows the new value, and so does DEFAULT_CONFIG
WriteThreshold(groups, shared, groupId, threshold) ==
    [g \in DOMAIN groups |->
        IF g = groupId \/ (groupId \in shared /\ g \in shared)
        THEN [groups[g] EXCEPT !.maxWarningsBeforeAction = threshold]
        ELSE groups[g]]

\* group.config.moderation.spamDetection.linkBlockingEnabled = newState,
\* written the same way
WriteLinkBlocking(groups, shared, groupId, newState) ==
    [g \in DOMAIN groups |->
        IF g = groupId \/ (groupId \in shared /\ g \in shared)
        THEN [groups[g] EXCEPT !.linkBlockingEnabled = newState]
        ELSE groups[g]]

\* the DM command set_threshold of an admin whose selected group is groupId,
\* dmCommands.js 166-193; threshold is parseInt(args[0]), 0 for no number
SetThreshold(groupId, threshold) ==
    LET valid == threshold >= 1 /\ threshold <= 10
    IN  /\ last.seq < MaxConfigOps
        /\ HasGroup(groupsCache, groupId)
        /\ IF valid
           THEN /\ groupsCache' = WriteThreshold(groupsCache, sharing, groupId, threshold)
                /\ defaultConfig' = IF groupId \in sharing
                                    THEN [defaultConfig EXCEPT
                                            !.maxWarningsBeforeAction = threshold]
                                    ELSE defaultConfig
           ELSE UNCHANGED <<groupsCache, defaultConfig>>
        /\ sent' = {}
        /\ last' = [NoLast EXCEPT !.seq = last.seq + 1, !.op = "set_threshold",
                                  !.at = now, !.group = groupId, !.num = threshold,
                                  !.ok = valid]
        /\ UNCHANGED <<sessionVars, sharing, configCache, lastUsedCache, everyoneModule, handlers, now, ticks,
                       warningsCache, warningsFile, messageCache, repeatedMessageCache,
                       floodLog, streak>>

\* the DM command toggle_links, dmCommands.js 112-134, and the onboarding
\* answer of onboardingHandler.js 207-213
ToggleLinks(groupId) ==
    LET newState == ~groupsCache[groupId].linkBlockingEnabled
    IN  /\ last.seq < MaxConfigOps
        /\ HasGroup(groupsCache, groupId)
        /\ groupsCache' = WriteLinkBlocking(groupsCache, sharing, groupId, newState)
        /\ defaultConfig' = IF groupId \in sharing
                            THEN [defaultConfig EXCEPT !.linkBlockingEnabled = newState]
                            ELSE defaultConfig
        /\ sent' = {}
        /\ last' = [NoLast EXCEPT !.seq = last.seq + 1, !.op = "toggle_links",
                                  !.at = now, !.group = groupId, !.flag = newState]
        /\ UNCHANGED <<sessionVars, sharing, configCache, lastUsedCache, everyoneModule, handlers, now, ticks,
                       warningsCache, warningsFile, messageCache, repeatedMessageCache,
                       floodLog, streak>>

\* updateGroupConfig(groupId, {moderation: {spamDetection:
\* {linkBlockingEnabled}}}), configManager.js 90-109: a missing entry starts
\* as getDefaultConfig, and deepMerge, 114-126, copies every object on the
\* way to the field it writes
UpdateGroupConfig(cache, moderation, groupId, enabled) ==
    LET cache1 == IF groupId \in DOMAIN cache
                  THEN cache
                  ELSE Put(cache, groupId,
                           [linkBlockingEnabled |-> moderation.linkBlockingEnabled])
    IN  [cache1 EXCEPT ![groupId].linkBlockingEnabled = enabled]

\* isAdmin(chat, userId), permissions.js 11-30: the participant is there
\* and is admin or super-admin
IsAdmin(userId) == userId \in Range(Admins)

\* a group message "!links on" or "!links off": handleMessage 59-63 hands
\* it to handleCommand, which asks canExecuteAdminCommand, permissions.js
\* 59-69, and then config.js handleLinks 118-158
LinksCommand(groupId, userId, enabled) ==
    /\ last.seq < MaxLinkOps
    /\ configCache' = IF IsAdmin(userId)
                      THEN UpdateGroupConfig(configCache, defaultConfig, groupId, enabled)
                      ELSE configCache
    /\ sent' = {[kind |-> "reply", to |-> userId, delivered |-> TRUE, text |-> <<>>]}
    /\ last' = [NoLast EXCEPT !.seq = last.seq + 1, !.op = "links",
                              !.at = now, !.group = groupId, !.user = userId,
                              !.flag = enabled, !.ok = IsAdmin(userId)]
    /\ UNCHANGED <<sessionVars, defaultConfig, sharing, lastUsedCache, everyoneModule, handlers, now, ticks,
                   groupsCache, warningsCache, warningsFile, messageCache,
                   repeatedMessageCache, floodLog, streak>>

\* the two handleEveryoneCommand modules of the repository that differ in
\* whom they let through: src/commands/everyone.js and the one stored as
\* src/unnamed/part_001 from line 423
EveryoneModules == {"everyone.js", "part_001"}

EveryoneCooldown == 3600000

\* the sender id the permission test is given and its answer, everyone.js
\* 19-37 and 50: a linked-device id (one holding "@lid") is replaced by the
\* sender's own id when the message data gives it; chat.participants lists
\* members by their own ids, so an id left unresolved is not found
AuthorIsAdmin(userId, linked, resolved) ==
    (~linked \/ resolved) /\ IsAdmin(userId)

\* part_001 474-495: a linked-device sender who could not be verified is let
\* through when the group has an admin at all
LinkedDeviceFallback(userId, linked, resolved) ==
    \/ AuthorIsAdmin(userId, linked, resolved)
    \/ (linked /\ ~resolved /\ Len(Admins) > 0)

\* everyone.js 61: group?.features?.everyoneCooldown || 3600000; part_001
\* 506: ... || 0, no cooldown unless the group record configures one
CooldownOf(module, groups, groupId) ==
    LET configured == IF HasGroup(groups, groupId)
                      THEN groups[groupId].everyoneCooldown ELSE 0
    IN  IF configured # 0 THEN configured
        ELSE IF module = "everyone.js" THEN EveryoneCooldown ELSE 0

\* everyone.js 60-69: now - (lastUsedCache.get(groupId) || 0) < cooldown;
\* the clock of the model starts at 0 where Date.now() is far beyond any
\* cooldown, so a group with no entry is never on cooldown. part_001 509
\* tests cooldown > 0 first
OnCooldown(cooldown, cache, groupId, t) ==
    /\ cooldown > 0
    /\ groupId \in DOMAIN cache
    /\ t - cache[groupId] < cooldown

\* a refused trigger stamping the cooldown too
LastUsedAfterCheck_StampAlways(cache, groupId, t, announce) == Put(cache, groupId, t)

\* everyone.js 75, reached only past the cooldown test of 64-69
LastUsedAfterCheck(cache, groupId, t, announce) ==
    IF announce THEN Put(cache, groupId, t) ELSE cache

\* a group message holding "@everyone", messageHandler.js 66-70, from userId
\* writing from a linked device or not: handleEveryoneCommand
EveryoneCommand(groupId, userId, linked, resolved) ==
    LET isUserAdmin == IF everyoneModule = "everyone.js"
                       THEN AuthorIsAdmin(userId, linked, resolved)
                       ELSE LinkedDeviceFallback(userId, linked, resolved)
        cooldown == CooldownOf(everyoneModule, groupsCache, groupId)
        announce == isUserAdmin /\ ~OnCooldown(cooldown, lastUsedCache, groupId, now)
    IN  /\ last.seq < MaxEveryoneOps
        /\ lastUsedCache' = LastUsedAfterCheck(lastUsedCache, groupId, now, announce)
        /\ sent' = IF announce
                   THEN {[kind |-> "announcement", to |-> groupId, delivered |-> TRUE,
                          text |-> <<>>]}
                   ELSE {[kind |-> "reply", to |-> userId, delivered |-> TRUE,
                          text |-> <<>>]}
        /\ last' = [NoLast EXCEPT !.seq = last.seq + 1, !.op = "everyone",
                                  !.at = now, !.group = groupId, !.user = userId,
                                  !.ok = isUserAdmin, !.flag = announce]
        /\ UNCHANGED <<sessionVars, defaultConfig, sharing, configCache, everyoneModule, handlers,
                       now, ticks, groupsCache, warningsCache, warningsFile,
                       messageCache, repeatedMessageCache, floodLog, streak>>

\* handleEveryoneCommand as the calls of one process that runs another call
\* whenever one waits. A call started for a message of userId in groupId
\* runs to the await of isAdmin, everyone.js 50; calls start in the order
\* of their numbers
AnnouncerStart(h, groupId, userId, linked, resolved) ==
    /\ announcers[h].pc = "idle"
    /\ IF h = 1 THEN TRUE ELSE announcers[h - 1].pc # "idle"
    /\ announcers' = [announcers EXCEPT ![h] =
          [pc |-> "isAdmin", group |-> groupId, user |-> userId, at |-> 0,
           admin |-> IF everyoneModule = "everyone.js"
                     THEN AuthorIsAdmin(userId, linked, resolved)
                     ELSE LinkedDeviceFallback(userId, linked, resolved)]]
    /\ UNCHANGED <<onboardingSessionsCache, adminSessionsCache, received,
                   defaultConfig, sharing, configCache, lastUsedCache,
                   everyoneModule, handlers, now, ticks, groupsCache,
                   warningsCache, warningsFile, messageCache,
                   repeatedMessageCache, floodLog, streak, last, sent>>

\* isAdmin has answered: everyone.js 51-76 runs without a wait up to the
\* reply of a refusal or, past the cooldown test, through
\* lastUsedCache.set(groupId, now) to the await of chat.sendMessage
AnnouncerCheck(h) ==
    LET a == announcers[h]
        cooldown == CooldownOf(everyoneModule, groupsCache, a.group)
        announce == a.admin /\ ~OnCooldown(cooldown, lastUsedCache, a.group, now)
    IN  /\ a.pc = "isAdmin"
        /\ lastUsedCache' = LastUsedAfterCheck(lastUsedCache, a.group, now, announce)
        /\ announcers' = [announcers EXCEPT ![h].at = now,
                             ![h].pc = IF ~a.admin THEN "refused"
                                       ELSE IF announce THEN "send" ELSE "cooldown"]
        /\ sent' = IF announce THEN {}
                   ELSE {[kind |-> "reply", to |-> a.user, delivered |-> TRUE,
                          text |-> <<>>]}
        /\ UNCHANGED <<onboardingSessionsCache, adminSessionsCache, received,
                       defaultConfig, sharing, configCache, everyoneModule,
                       handlers, now, ticks, groupsCache, warningsCache,
                       warningsFile, messageCache, repeatedMessageCache,
                       floodLog, streak, last>>

\* chat.sendMessage of the announcement, everyone.js 103, has ended: sent,
\* or thrown and answered by the reply of 123
AnnouncerSend(h, ok) ==
    /\ announcers[h].pc = "send"
    /\ announcers' = [announcers EXCEPT ![h].pc = IF ok THEN "sent" ELSE "failed"]
    /\ sent' = IF ok
               THEN {[kind |-> "announcement", to |-> announcers[h].group,
                      delivered |-> TRUE, text |-> <<>>]}
               ELSE {[kind |-> "reply", to |-> announcers[h].user,
                      delivered |-> TRUE, text |-> <<>>]}
    /\ UNCHANGED <<onboardingSessionsCache, adminSessionsCache, received,
                   defaultConfig, sharing, configCache, lastUsedCache,
                   everyoneModule, handlers, now, ticks, groupsCache,
                   warningsCache, warningsFile, messageCache,
                   repeatedMessageCache, floodLog, streak, last>>

(***************************************************************************)
(* Direct messages: messageHandler.js handleDMMessage, onboardingHandler.js *)
(* and the DM commands                                                     *)
(***************************************************************************)
\* the direct messages the model sends
DMHello == <<"h", "e", "l", "l", "o">>
DMOne == <<"1">>
DMTwo == <<"2">>
DMYes == <<" ", "Y", "e", "s">>
DMSkip == <<"s", "k", "i", "p">>
DMRestart == <<"R", "e", "s", "t", "a", "r", "t">>
DMQuit == <<"q", "u", "i", "t">>
DMRule == <<"B", "e", " ", "K", "i", "n", "d", " ">>
DMSetup == <<"s", "e", "t", "u", "p">>
DMToggleLinks == <<"t", "o", "g", "g", "l", "e", "_", "l", "i", "n", "k", "s">>
DMRestartOnboarding == <<"r", "e", "s", "t", "a", "r", "t", "_", "o", "n", "b", "o", "a", "r", "d", "i", "n", "g">>
DMSetThreshold == <<"s", "e", "t", "_", "t", "h", "r", "e", "s", "h", "o", "l", "d">>
DMSetThresholdTwo == <<"s", "e", "t", "_", "t", "h", "r", "e", "s", "h", "o", "l", "d", " ", "2">>
DMSetThresholdZero == <<"s", "e", "t", "_", "t", "h", "r", "e", "s", "h", "o", "l", "d", " ", "0">>
DMSetThresholdEleven == <<"s", "e", "t", "_", "t", "h", "r", "e", "s", "h", "o", "l", "d", " ", "1", "1">>
DMSetThresholdWord == <<"s", "e", "t", "_", "t", "h", "r", "e", "s", "h", "o", "l", "d", " ", "x">>
DMSetThresholdMixed == <<"S", "e", "t", "_", "T", "h", "r", "e", "s", "h", "o", "l", "d", " ", " ", "1", "x">>

DMBodies ==
    {DMHello, DMOne, DMTwo, DMYes, DMSkip, DMRestart, DMQuit, DMRule, DMSetup,
     DMToggleLinks, DMRestartOnboarding, DMSetThreshold, DMSetThresholdTwo,
     DMSetThresholdZero, DMSetThresholdEleven, DMSetThresholdWord,
     DMSetThresholdMixed}

\* the words the handlers compare a lower-cased, trimmed body with
WordRestart == <<"r", "e", "s", "t", "a", "r", "t">>
WordsQuit == {<<"q", "u", "i", "t">>, <<"e", "x", "i", "t">>, <<"s", "t", "o", "p">>}
WordsYes == {<<"1">>, <<"y", "e", "s">>, <<"e", "n", "a", "b", "l", "e", " ", "l", "i", "n", "k", "s">>}
WordsNo == {<<"2">>, <<"n", "o">>, <<"s", "k", "i", "p">>}
WordsSkipRule == {<<"s", "k", "i", "p">>, <<"n", "e", "x", "t">>}
WordSetup == <<"s", "e", "t", "u", "p">>
WordSetThreshold == <<"s", "e", "t", "_", "t", "h", "r", "e", "s", "h", "o", "l", "d">>
WordToggleLinks == <<"t", "o", "g", "g", "l", "e", "_", "l", "i", "n", "k", "s">>
WordRestartOnboarding == <<"r", "e", "s", "t", "a", "r", "t", "_", "o", "n", "b", "o", "a", "r", "d", "i", "n", "g">>

\* the index of the first white space of s, Len(s) + 1 if there is none
FirstSpace(s) ==
    IF \E i \in 1..Len(s) : IsSpace(s[i])
    THEN CHOOSE i \in 1..Len(s) : IsSpace(s[i]) /\ \A j \in 1..(i - 1) : ~IsSpace(s[j])
    ELSE Len(s) + 1

\* messageBody.split(/\s+/): parts[0] and parts[1] (<<>> for undefined) of a
\* trimmed body
FirstPart(s) == SubSeq(s, 1, FirstSpace(s) - 1)

SecondPart(s) == FirstPart(TrimStart(SubSeq(s, FirstSpace(s), Len(s))))

DigitSeq == <<"0", "1", "2", "3", "4", "5", "6", "7", "8", "9">>

DigitOf(c) == (CHOOSE d \in 1..10 : DigitSeq[d] = c) - 1

RECURSIVE DigitsValue(_, _, _)
DigitsValue(s, i, acc) ==
    IF i > Len(s) THEN acc
    ELSE IF s[i] \notin DigitChars THEN acc
    ELSE DigitsValue(s, i + 1, acc * 10 + DigitOf(s[i]))

\* parseInt(s) for decimal text: leading white space and a sign are skipped,
\* digits are read up to the first other character, NaN when there is none;
\* undefined is <<>>
ParseInt(s) ==
    LET t == TrimStart(s)
        signed == IF t = <<>> THEN FALSE ELSE t[1] \in {"+", "-"}
        u == IF signed THEN Tail(t) ELSE t
        digits == IF u = <<>> THEN FALSE ELSE u[1] \in DigitChars
    IN  IF ~digits THEN [nan |-> TRUE, value |-> 0]
        ELSE [nan |-> FALSE,
              value |-> IF signed /\ t[1] = "-" THEN 0 - DigitsValue(u, 1, 0)
                                                 ELSE DigitsValue(u, 1, 0)]

\* number.toString() of an integer in 0..99
NumberToString(n) ==
    IF n < 10 THEN <<DigitSeq[n + 1]>>
    ELSE <<DigitSeq[(n \div 10) + 1], DigitSeq[(n % 10) + 1]>>

\* isPotentialGroupSelection(messageBody), adminContext.js 200-206
IsPotentialGroupSelection(messageBody) ==
    LET trimmed == Trim(messageBody)
        number == ParseInt(trimmed)
    IN  IF number.nan \/ number.value <= 0 \/ number.value >= 100 THEN FALSE
        ELSE trimmed = NumberToString(number.value)

\* what the handlers read off each body
DMTable ==
    [b \in DMBodies |->
        [trimmed   |-> Trim(b),
         text      |-> ToLowerCase(Trim(b)),
         command   |-> ToLowerCase(FirstPart(Trim(b))),
         threshold |-> ParseInt(SecondPart(Trim(b))),
         selection |-> ParseInt(Trim(b)),
         potential |-> IsPotentialGroupSelection(b)]]

\* getGroupsByAdmin(adminId), storage.js 220-234: the groups whose admin
\* list holds adminId, in the order groupsCache keeps them (g1 before g2)
GroupOrder == <<"g1", "g2">>

GetGroupsByAdmin(groups, adminId) ==
    SelectSeq(GroupOrder, LAMBDA g : IF g \in DOMAIN groups
                                     THEN adminId \in Range(groups[g].admins)
                                     ELSE FALSE)

\* hasActiveContext(adminId), adminContext.js 171-174
HasActiveContext(contexts, adminId) == adminId \in DOMAIN contexts

\* a rule put in front of the others
WriteRule_Prepend(groups, shared, groupId, rule) ==
    [g \in DOMAIN groups |->
        IF g = groupId \/ (groupId \in shared /\ g \in shared)
        THEN [groups[g] EXCEPT !.rules = <<rule>> \o @]
        ELSE groups[g]]

\* group.config.rules.push(rule), written through the array getGroup
\* returned: every record holding the same rules array shows the new rule
WriteRule(groups, shared, groupId, rule) ==
    [g \in DOMAIN groups |->
        IF g = groupId \/ (groupId \in shared /\ g \in shared)
        THEN [groups[g] EXCEPT !.rules = Append(@, rule)]
        ELSE groups[g]]

\* the stores a direct message can write
DMStores(sessions, contexts, groups, defaults) ==
    [sessions |-> sessions, contexts |-> contexts, groups |-> groups,
     defaults |-> defaults]

\* startOnboarding(adminId, groupId, client), onboardingHandler.js 29-44
StartOnboarding(st, adminId, groupId) ==
    IF ~HasGroup(st.groups, groupId) THEN st
    ELSE [st EXCEPT !.sessions = Put(@, adminId, [groupId |-> groupId,
                                                  step |-> "welcome",
                                                  completedSteps |-> <<>>]),
                    !.contexts = Put(@, adminId, groupId)]

\* toggleLinkBlocking(groupId, enabled), onboardingHandler.js 207-213
ToggleLinkBlocking(st, shared, groupId, enabled) ==
    IF ~HasGroup(st.groups, groupId) THEN st
    ELSE [st EXCEPT !.groups = WriteLinkBlocking(@, shared, groupId, enabled),
                    !.defaults = IF groupId \in shared
                                 THEN [@ EXCEPT !.linkBlockingEnabled = enabled]
                                 ELSE @]

\* addFirstRule(groupId, rule), onboardingHandler.js 218-225
AddFirstRule(st, shared, groupId, rule) ==
    IF ~HasGroup(st.groups, groupId) THEN st
    ELSE [st EXCEPT !.groups = WriteRule(@, shared, groupId, rule),
                    !.defaults = IF groupId \in shared
                                 THEN [@ EXCEPT !.rules = Append(@, rule)]
                                 ELSE @]

\* a session that is always sent on to the summary
SessionAt_ToSummary(st, adminId, step, done) ==
    [st EXCEPT !.sessions[adminId].step = "summary",
               !.sessions[adminId].completedSteps = done]

\* the session moved to a step and stored, onboardingHandler.js 111
SessionAt(st, adminId, step, done) ==
    [st EXCEPT !.sessions[adminId].step = step,
               !.sessions[adminId].completedSteps = done]

\* onboardingHandler.js 94
RuleSkipped(text) == text \in WordsSkipRule

\* handleOnboardingMessage(message, client) for an admin with a session,
\* onboardingHandler.js 55-113
HandleOnboardingMessage(st, shared, adminId, messageBody) ==
    LET session == st.sessions[adminId]
        body == DMTable[messageBody].text
        done == session.completedSteps
    IN  IF body = WordRestart
        THEN SessionAt(st, adminId, "welcome", <<>>)
        ELSE IF body \in WordsQuit
        THEN [st EXCEPT !.sessions = Del(@, adminId)]
        ELSE IF session.step = "welcome"
        THEN SessionAt(st, adminId, "core_features", done)
        ELSE IF session.step = "core_features"
        THEN IF body \in WordsYes
             THEN SessionAt(ToggleLinkBlocking(st, shared, session.groupId, TRUE),
                            adminId, "rules", Append(done, "links_enabled"))
             ELSE IF body \in WordsNo
             THEN SessionAt(ToggleLinkBlocking(st, shared, session.groupId, FALSE),
                            adminId, "rules", Append(done, "links_disabled"))
             ELSE st
        ELSE IF session.step = "rules"
        THEN IF RuleSkipped(body)
             THEN SessionAt(st, adminId, "summary", done)
             ELSE SessionAt(AddFirstRule(st, shared, session.groupId,
                                         DMTable[messageBody].trimmed),
                            adminId, "summary", Append(done, "rule_added"))
        ELSE [st EXCEPT !.sessions = Del(@, adminId)]

\* handleGroupSelection(message, client), adminContext.js 84-152: what it
\* answers and the context it leaves
HandleGroupSelection(st, adminId, messageBody) ==
    LET selection == DMTable[messageBody].selection
        groups == GetGroupsByAdmin(st.groups, adminId)
    IN  IF selection.nan \/ Len(groups) = 0
        THEN [handled |-> FALSE, st |-> st]
        ELSE IF selection.value < 1 \/ selection.value > Len(groups)
        THEN [handled |-> TRUE, st |-> st]
        ELSE [handled |-> TRUE,
              st |-> [st EXCEPT !.contexts = Put(@, adminId, groups[selection.value])]]

\* dmCommands.js 176
ValidThreshold(threshold) ==
    ~threshold.nan /\ threshold.value >= 1 /\ threshold.value <= 10

\* handleSetThresholdCommand(message, args, client), dmCommands.js 166-193
HandleSetThresholdCommand(st, shared, adminId, messageBody) ==
    LET threshold == DMTable[messageBody].threshold
        groupId == st.contexts[adminId]
    IN  IF ~HasActiveContext(st.contexts, adminId) THEN st
        ELSE IF ~ValidThreshold(threshold) THEN st
        ELSE [st EXCEPT !.groups = WriteThreshold(@, shared, groupId, threshold.value),
                        !.defaults = IF groupId \in shared
                                     THEN [@ EXCEPT !.maxWarningsBeforeAction =
                                                        threshold.value]
                                     ELSE @]

\* handleToggleLinksCommand(message, client), dmCommands.js 112-134
HandleToggleLinksCommand(st, shared, adminId) ==
    IF ~HasActiveContext(st.contexts, adminId) THEN st
    ELSE ToggleLinkBlocking(st, shared, st.contexts[adminId],
                            ~st.groups[st.contexts[adminId]].linkBlockingEnabled)

\* handleRestartOnboardingCommand(message, client), dmCommands.js 422-432
HandleRestartOnboardingCommand(st, adminId) ==
    IF ~HasActiveContext(st.contexts, adminId) THEN st
    ELSE StartOnboarding(st, adminId, st.contexts[adminId])

\* a DM handler that tries the commands before the onboarding session
HandleDMMessage_CommandsFirst(st, shared, adminId, messageBody) ==
    LET command == DMTable[messageBody].command
    IN  IF command = WordSetThreshold
        THEN [by |-> "set_threshold",
              st |-> HandleSetThresholdCommand(st, shared, adminId, messageBody)]
        ELSE IF command = WordToggleLinks
        THEN [by |-> "toggle_links", st |-> HandleToggleLinksCommand(st, shared, adminId)]
        ELSE IF adminId \in DOMAIN st.sessions
        THEN [by |-> "onboarding",
              st |-> HandleOnboardingMessage(st, shared, adminId, messageBody)]
        ELSE [by |-> "ignored", st |-> st]

\* handleDMMessage(message, client), messageHandler.js 99-217: which handler
\* takes the message and the stores it leaves
HandleDMMessage(st, shared, adminId, messageBody) ==
    LET command == DMTable[messageBody].command
        selected == HandleGroupSelection(st, adminId, messageBody)
    IN  IF adminId \in DOMAIN st.sessions
        THEN [by |-> "onboarding",
              st |-> HandleOnboardingMessage(st, shared, adminId, messageBody)]
        ELSE IF DMTable[messageBody].text = WordSetup
        THEN [by |-> "setup", st |-> st]
        ELSE IF DMTable[messageBody].potential /\ selected.handled
        THEN [by |-> "select", st |-> selected.st]
        ELSE IF command = WordSetThreshold
        THEN [by |-> "set_threshold",
              st |-> HandleSetThresholdCommand(st, shared, adminId, messageBody)]
        ELSE IF command = WordToggleLinks
        THEN [by |-> "toggle_links", st |-> HandleToggleLinksCommand(st, shared, adminId)]
        ELSE IF command = WordRestartOnboarding
        THEN [by |-> "restart_onboarding",
              st |-> HandleRestartOnboardingCommand(st, adminId)]
        ELSE [by |-> "ignored", st |-> st]

\* a direct message of adminId: handleMessage 47-54 and handleDMMessage
DirectMessage(adminId, messageBody) ==
    LET r == HandleDMMessage(DMStores(onboardingSessionsCache, adminSessionsCache,
                                      groupsCache, defaultConfig),
                             sharing, adminId, messageBody)
    IN  /\ last.seq < MaxDMOps
        /\ onboardingSessionsCache' = r.st.sessions
        /\ adminSessionsCache' = r.st.contexts
        /\ groupsCache' = r.st.groups
        /\ defaultConfig' = r.st.defaults
        /\ sent' = {}
        /\ last' = [NoLast EXCEPT !.seq = last.seq + 1, !.op = r.by, !.at = now,
                                  !.user = adminId, !.body = messageBody]
        /\ UNCHANGED <<received, announcers, sharing, configCache, lastUsedCache,
                       everyoneModule, handlers, now, ticks, warningsCache,
                       warningsFile, messageCache, repeatedMessageCache, floodLog,
                       streak>>

\* the bot is added to a group, groupManager.js handleGroupJoin 14-77: the
\* group is registered and notifyAdmins, 114-122, starts the onboarding of
\* every admin of it
RECURSIVE StartOnboardingAll(_, _, _)
StartOnboardingAll(st, adminIds, groupId) ==
    IF adminIds = <<>> THEN st
    ELSE StartOnboardingAll(StartOnboarding(st, Head(adminIds), groupId),
                            Tail(adminIds), groupId)

GroupJoin(groupId) ==
    LET groups1 == Put(groupsCache, groupId, RegisteredGroup(defaultConfig))
        st == StartOnboardingAll(DMStores(onboardingSessionsCache, adminSessionsCache,
                                          groups1, defaultConfig),
                                 groups1[groupId].admins, groupId)
    IN  /\ last.seq < MaxDMOps
        /\ ~HasGroup(groupsCache, groupId)
        /\ groupsCache' = groups1
        /\ sharing' = sharing \cup {groupId}
        /\ onboardingSessionsCache' = st.sessions
        /\ adminSessionsCache' = st.contexts
        /\ sent' = {}
        /\ last' = [NoLast EXCEPT !.seq = last.seq + 1, !.op = "groupJoin",
                                  !.at = now, !.group = groupId]
        /\ UNCHANGED <<received, announcers, defaultConfig, configCache, lastUsedCache,
                       everyoneModule, handlers, now, ticks, warningsCache,
                       warningsFile, messageCache, repeatedMessageCache, floodLog,
                       streak>>

\* updateGroupAdmins(groupId, client), groupManager.js 164-199 (and the same
\* assignment in syncAllGroups, 262-268): the admin list of a registered
\* group replaced by the admins the chat reports
UpdateGroupAdmins(groupId, admins) ==
    /\ last.seq < MaxDMOps
    /\ HasGroup(groupsCache, groupId)
    /\ groupsCache' = [groupsCache EXCEPT ![groupId].admins = admins]
    /\ sent' = {}
    /\ last' = [NoLast EXCEPT !.seq = last.seq + 1, !.op = "updateGroupAdmins",
                              !.at = now, !.group = groupId]
    /\ UNCHANGED <<configVars, handlers, now, ticks, warningsCache, warningsFile,
                   messageCache, repeatedMessageCache, floodLog, streak>>

\* checkForSpam(message, chat, client) for one group message
GroupMessage(groupId, userId, messageBody, isMedia, isForwarded, ioSet) ==
    LET c == Classify(groupsCache, messageCache, repeatedMessageCache, groupId,
                      userId, messageBody, isMedia, isForwarded, now)
        base == [NoLast EXCEPT !.seq = last.seq + 1, !.op = "checkForSpam",
                               !.at = now, !.group = groupId, !.user = userId,
                               !.body = messageBody, !.media = isMedia,
                               !.fwd = isForwarded, !.reason = c.reason,
                               !.flag = c.reason # "notSpam",
                               !.floodRan = c.floodRan, !.repeatRan = c.repeatRan]
    IN  /\ GetWarnings(warningsCache, groupId, userId).count < MaxWarnings
        /\ messageCache' = c.mCache
        /\ repeatedMessageCache' = c.rCache
        /\ floodLog' = IF c.floodRan
                       THEN [floodLog EXCEPT ![userId] = Append(@, now)]
                       ELSE floodLog
        /\ streak' = IF c.repeatRan
                     THEN [streak EXCEPT ![userId] = StreakAfter(@, messageBody, now)]
                     ELSE streak
        /\ IF c.reason = "notSpam"
           THEN /\ last' = base
                /\ sent' = {}
                /\ UNCHANGED <<warningsCache, warningsFile>>
           ELSE \E io \in ioSet :
                  LET h == HandleSpamDetection(warningsCache, warningsFile,
                                               groupsCache, groupId, userId,
                                               c.reason, now, io)
                  IN  /\ warningsCache' = h.cache
                      /\ warningsFile' = h.file
                      /\ sent' = h.sent
                      /\ last' = [base EXCEPT !.ok = h.success, !.count = h.count,
                                              !.threshold = h.threshold,
                                              !.deleted = h.deleted,
                                              !.contact = h.contact,
                                              !.reached = h.thresholdReached]
        /\ UNCHANGED <<configVars, handlers, now, ticks, groupsCache>>

(***************************************************************************)
(* messageHandler.js handleMessage 23-94 and commandHandler.js             *)
(***************************************************************************)
BodyLinksOn == <<"!", "l", "i", "n", "k", "s", " ", "O", "n">>
BodyBangLink == <<"!", "x", ".", "i", "o", "/", "s", "p", "a", "m">>
BodyEveryoneLink ==
    <<"@", "E", "v", "e", "r", "y", "o", "n", "e", " ", "x", ".", "i", "o", "/",
      "s", "p", "a", "m">>

WordEveryone == <<"@", "e", "v", "e", "r", "y", "o", "n", "e">>
WordLinks == <<"l", "i", "n", "k", "s">>
WordOn == <<"o", "n">>
WordOff == <<"o", "f", "f">>

\* isCommand(message), commandHandler.js 16-18: message.startsWith('!')
IsCommand(messageBody) == messageBody # <<>> /\ messageBody[1] = "!"

\* parseCommand(messageBody), commandHandler.js 23-29, of a body that
\* starts with '!': parts[0] without its first character, lower-cased, and
\* args[0]
ParseCommand(messageBody) ==
    [command |-> ToLowerCase(Tail(FirstPart(Trim(messageBody)))),
     arg |-> SecondPart(Trim(messageBody))]

\* a handler that does not look at fromMe
Route_OwnMessagesToo(message) ==
    IF message.isDM THEN "dm"
    ELSE IF IsCommand(message.body) THEN "command"
    ELSE IF Includes(ToLowerCase(message.body), WordEveryone) THEN "everyone"
    ELSE "moderation"

\* where handleMessage takes a message, 26-28, 47-53, 59-63, 66-70, 73-90
Route(message) ==
    IF message.fromMe THEN "ignored"
    ELSE IF message.isDM THEN "dm"
    ELSE IF IsCommand(message.body) THEN "command"
    ELSE IF Includes(ToLowerCase(message.body), WordEveryone) THEN "everyone"
    ELSE "moderation"

\* a message event: handleMessage is called and, for a message of someone
\* else, waits for message.getChat(), 30; the message before it has been
\* handled
Receive(message) ==
    /\ received.n = last.seq
    /\ last.seq < MaxRoutedMessages
    /\ received' = [message EXCEPT !.n = last.seq + 1]
    /\ UNCHANGED <<onboardingSessionsCache, adminSessionsCache, announcers,
                   defaultConfig, sharing, configCache, lastUsedCache,
                   everyoneModule, handlers, now, ticks, groupsCache,
                   warningsCache, warningsFile, messageCache,
                   repeatedMessageCache, floodLog, streak, last, sent>>

\* handleMessage 26-28: a message of the bot itself
IgnoreOwnMessage ==
    /\ sent' = {}
    /\ last' = [NoLast EXCEPT !.seq = last.seq + 1, !.op = "fromMe", !.at = now]
    /\ UNCHANGED <<configVars, handlers, now, ticks, groupsCache, warningsCache,
                   warningsFile, messageCache, repeatedMessageCache, floodLog,
                   streak>>

\* the commands that reply and change nothing the model holds: !warn (its
\* handler sends a notice and records no warning), !help, !links without
\* on or off, an unknown command
CommandReply(groupId, userId) ==
    /\ sent' = {[kind |-> "reply", to |-> userId, delivered |-> TRUE, text |-> <<>>]}
    /\ last' = [NoLast EXCEPT !.seq = last.seq + 1, !.op = "command", !.at = now,
                              !.group = groupId, !.user = userId]
    /\ UNCHANGED <<configVars, handlers, now, ticks, groupsCache, warningsCache,
                   warningsFile, messageCache, repeatedMessageCache, floodLog,
                   streak>>

\* handleCommand(message, client), commandHandler.js 34-110
HandleCommand(groupId, userId, messageBody) ==
    LET parsed == ParseCommand(messageBody)
        action == ToLowerCase(parsed.arg)
    IN  IF parsed.command = WordLinks /\ action \in {WordOn, WordOff}
        THEN LinksCommand(groupId, userId, action = WordOn)
        ELSE CommandReply(groupId, userId)

\* the rest of handleMessage for the message received
Deliver ==
    /\ received.n = last.seq + 1
    /\ CASE Route(received) = "ignored" -> IgnoreOwnMessage
         [] Route(received) = "dm" -> DirectMessage(received.from, received.body)
         [] Route(received) = "command" ->
               HandleCommand(received.group, received.from, received.body)
         [] Route(received) = "everyone" ->
               EveryoneCommand(received.group, received.from, FALSE, FALSE)
         [] OTHER ->
               GroupMessage(received.group, received.from, received.body, FALSE,
                            FALSE, MessageIO)

\* handleSpamDetection is entered for a message of userId classified as
\* spam and waits for message.getContact(), 163-176; calls start in the order
\* of their numbers
HandlerStart(h) ==
    /\ handlers[h].pc = "idle"
    /\ IF h = 1 THEN TRUE ELSE handlers[h - 1].pc # "idle"
    /\ handlers' = [handlers EXCEPT ![h].pc = "contact"]
    /\ UNCHANGED <<configVars, now, ticks, groupsCache, warningsCache, warningsFile,
                   messageCache, repeatedMessageCache, floodLog, streak, last, sent>>

\* the part of warningSystem.addWarning that runs without a wait, 20-41:
\* storage addWarning with its file write, the threshold test, and the call
\* of sendWarningDM
HandlerRecord(h, groupId, userId, reason, writeOk) ==
    LET cache1 == StorageAddWarning(warningsCache, groupId, userId, reason, now)
        count == GetWarnings(cache1, groupId, userId).count
        threshold == ResolveThreshold(groupsCache, groupId)
    IN  /\ GetWarnings(warningsCache, groupId, userId).count < MaxWarnings
        /\ warningsCache' = cache1
        /\ warningsFile' = SafeWriteJSON(warningsFile, cache1, writeOk)
        /\ handlers' = [handlers EXCEPT ![h] =
              [pc |-> IF writeOk THEN "dm" ELSE "notice",
               recorded |-> TRUE, ok |-> writeOk,
               count |-> IF writeOk THEN count ELSE 0,
               thresholdReached |-> writeOk /\ ThresholdReached(count, threshold)]]
        /\ last' = [NoLast EXCEPT !.seq = last.seq + 1, !.op = "addWarning",
                                  !.at = now, !.group = groupId, !.user = userId,
                                  !.reason = reason, !.ok = writeOk,
                                  !.flag = writeOk /\ ThresholdReached(count, threshold),
                                  !.count = IF writeOk THEN count ELSE 0,
                                  !.threshold = IF writeOk THEN threshold ELSE 0]
        /\ UNCHANGED <<configVars, now, ticks, groupsCache, messageCache, repeatedMessageCache,
                       floodLog, streak, sent>>

\* getContact has answered, 177-191: a bot that is admin waits for
\* message.delete, any other goes on to addWarning at once
HandlerContact(h, groupId, userId, reason, botAdmin, writeOk) ==
    /\ handlers[h].pc = "contact"
    /\ IF botAdmin
       THEN /\ handlers' = [handlers EXCEPT ![h].pc = "delete"]
            /\ UNCHANGED <<configVars, now, ticks, groupsCache, warningsCache, warningsFile,
                           messageCache, repeatedMessageCache, floodLog, streak,
                           last, sent>>
       ELSE HandlerRecord(h, groupId, userId, reason, writeOk)

\* message.delete has answered or failed, 193-213: addWarning is called
HandlerDelete(h, groupId, userId, reason, writeOk) ==
    /\ handlers[h].pc = "delete"
    /\ HandlerRecord(h, groupId, userId, reason, writeOk)

\* sendWarningDM has returned, part_000 41-46
HandlerDM(h, groupId, userId, reason, dmOk) ==
    /\ handlers[h].pc = "dm"
    /\ handlers' = [handlers EXCEPT ![h].pc =
                       IF handlers[h].thresholdReached THEN "admins" ELSE "notice"]
    /\ sent' = sent \cup SendWarningDM(userId, reason, handlers[h].count,
                                        ResolveThreshold(groupsCache, groupId), dmOk)
    /\ UNCHANGED <<configVars, now, ticks, groupsCache, warningsCache, warningsFile,
                   messageCache, repeatedMessageCache, floodLog, streak, last>>

\* notifyAdminsThresholdReached has returned, part_000 44-56, and
\* handleSpamDetection calls sendGroupNotice, 216
HandlerAdmins(h, groupId, adminOk) ==
    /\ handlers[h].pc = "admins"
    /\ handlers' = [handlers EXCEPT ![h].pc = "notice"]
    /\ sent' = sent \cup NotifyAdminsThresholdReached(groupsCache, groupId, adminOk)
    /\ UNCHANGED <<configVars, now, ticks, groupsCache, warningsCache, warningsFile,
                   messageCache, repeatedMessageCache, floodLog, streak, last>>

\* sendGroupNotice has returned and handleSpamDetection ends, 216-219
HandlerNotice(h, groupId, noticeOk) ==
    /\ handlers[h].pc = "notice"
    /\ handlers' = [handlers EXCEPT ![h].pc = "done"]
    /\ sent' = sent \cup SendGroupNotice(groupsCache, groupId, noticeOk)
    /\ UNCHANGED <<configVars, now, ticks, groupsCache, warningsCache, warningsFile,
                   messageCache, repeatedMessageCache, floodLog, streak, last>>

(***************************************************************************)(* SpecLedger: the warning ledger and the escalation, called directly      *)
(***************************************************************************)
LedgerReasons == {"Message flooding", "Repeated messages"}

InitLedger ==
    /\ InitRest
    /\ \E threshold \in {0, 2, 3} :
          groupsCache = [g \in {"g1"} |->
              GroupRecord(TRUE, FALSE, <<>>, 10, 3, threshold, FALSE)]

\* two users of the registered group and one of a group that is not registered
LedgerKeys == {<<"g1", "u1">>, <<"g1", "u2">>, <<"g2", "u1">>}

NextLedger ==
    \/ \E k \in LedgerKeys, reason \in LedgerReasons, io \in AllIO :
          WarnUser(k[1], k[2], reason, io)
    \/ \E k \in LedgerKeys, writeOk \in BOOLEAN :
          ClearUserWarnings(k[1], k[2], writeOk)

SpecLedger == InitLedger /\ [][NextLedger]_vars

(***************************************************************************)
(* SpecFlood: checkMessageFlood called for one user, the clock and the     *)
(* cache timer                                                             *)
(***************************************************************************)
InitFlood ==
    /\ InitRest
    /\ \E maxMessages \in {0, 10, 17} :
          groupsCache = [g \in {"g1"} |->
              GroupRecord(TRUE, FALSE, <<>>, maxMessages, 3, 3, FALSE)]

NextFlood ==
    \/ FloodCall("u1", groupsCache["g1"].maxMessagesPerMinute)
    \/ \E d \in {5000, 55000} : Tick(d)
    \/ CheckDataFlood

SpecFlood == InitFlood /\ [][NextFlood]_vars

(***************************************************************************)
(* SpecRepeat: checkRepeatedMessage called for one user, the clock and the *)
(* cache timer                                                             *)
(***************************************************************************)
RepeatBodies == {BodyOk, BodyHello, BodyHelloVariant, BodyWorld}

InitRepeat ==
    /\ InitRest
    /\ \E maxRepeated \in {0, 2, 3} :
          groupsCache = [g \in {"g1"} |->
              GroupRecord(TRUE, FALSE, <<>>, 10, maxRepeated, 3, FALSE)]

NextRepeat ==
    \/ \E messageBody \in RepeatBodies :
          RepeatCall("u1", messageBody, groupsCache["g1"].maxRepeatedMessages)
    \/ \E d \in {150000, 150001} : Tick(d)
    \/ CheckDataRepeat

SpecRepeat == InitRepeat /\ [][NextRepeat]_vars

(***************************************************************************)
(* Spec: a few group messages of one user through checkForSpam, with every *)
(* message kind and outcome, the clock and the cache timers                *)
(***************************************************************************)
SpecBodies == {BodyOk, BodyHello, BodyLink}

\* link blocking and group notices on, every long text counted as a
\* repetition, threshold 2
StrictGroup == GroupRecord(TRUE, TRUE, <<>>, 10, 1, 2, TRUE)

\* spam detection off
DisabledGroup == GroupRecord(FALSE, TRUE, <<>>, 10, 3, 3, TRUE)

Init ==
    /\ InitRest
    /\ \E group \in {DefaultGroup, StrictGroup, DisabledGroup} :
          groupsCache = [g \in {"g1"} |-> group]

Next ==
    \/ /\ last.seq < MaxMessages
       /\ \E messageBody \in SpecBodies, isMedia \in BOOLEAN, isForwarded \in BOOLEAN :
             GroupMessage("g1", "u1", messageBody, isMedia, isForwarded, MessageIO)
    \/ \E d \in {300001} : Tick(d)
    \/ CheckDataFlood
    \/ CheckDataRepeat

Spec == Init /\ [][Next]_vars

(***************************************************************************)
(* SpecBurst: a burst of text messages of one user in one group through    *)
(* checkForSpam, every write and send succeeding                           *)
(***************************************************************************)
BurstIO ==
    {[writeOk |-> TRUE, dmOk |-> TRUE, adminOk |-> {"a1", "a2"},
      noticeOk |-> TRUE, botAdmin |-> TRUE, contactOk |-> TRUE,
      deleteOk |-> TRUE]}

InitBurst ==
    /\ InitRest
    /\ \E group \in {DefaultGroup, StrictGroup} :
          groupsCache = [g \in {"g1"} |-> group]

NextBurst ==
    /\ last.seq < MaxBurstMessages
    /\ \E messageBody \in SpecBodies :
          GroupMessage("g1", "u1", messageBody, FALSE, FALSE, BurstIO)

SpecBurst == InitBurst /\ [][NextBurst]_vars

(***************************************************************************)
(* SpecGroups: text messages of one user in two groups, the second of      *)
(* which may have no stored configuration                                  *)
(***************************************************************************)
GroupBodies == {BodyHello, BodyLink, BodyOtherLink}

\* link blocking on with an allow-list
AllowGroup == GroupRecord(TRUE, TRUE, AllowXIo, 10, 2, 3, FALSE)

\* the defaults with link blocking on
LinkGroup == GroupRecord(TRUE, TRUE, <<>>, 10, 3, 3, FALSE)

InitGroups ==
    /\ InitRest
    /\ \E c1 \in {StrictGroup, AllowGroup, DisabledGroup, LinkGroup},
          c2 \in {StrictGroup, AllowGroup}, registered \in BOOLEAN :
          groupsCache = IF registered
                        THEN [g \in {"g1", "g2"} |-> IF g = "g1" THEN c1 ELSE c2]
                        ELSE [g \in {"g1"} |-> c1]

NextGroups ==
    /\ last.seq < MaxGroupMessages
    /\ \E groupId \in Groups, messageBody \in GroupBodies :
          GroupMessage(groupId, "u1", messageBody, FALSE, FALSE, BurstIO)

SpecGroups == InitGroups /\ [][NextGroups]_vars

(***************************************************************************)
(* SpecHistory: a long run of checkRepeatedMessage calls of one user with  *)
(* two texts, and a pause that outlasts the cache entry                    *)
(***************************************************************************)
HistoryBodies == {BodyHello, BodyWorld}

InitHistory ==
    /\ InitRest
    /\ groupsCache = [g \in {"g1"} |-> DefaultGroup]

NextHistory ==
    \/ \E messageBody \in HistoryBodies :
          HistoryCall("u1", messageBody, groupsCache["g1"].maxRepeatedMessages)
    \/ /\ ticks < MaxHistoryTicks
       /\ Tick(300001)

SpecHistory == InitHistory /\ [][NextHistory]_vars

(***************************************************************************)
(* SpecDecay: the warning ledger of two users of one group while days pass *)
(***************************************************************************)
DecayKeys == {<<"g1", "u1">>, <<"g1", "u2">>}

DecayIO == {io \in AllIO : io.dmOk /\ io.adminOk = {"a1", "a2"}}

InitDecay ==
    /\ InitRest
    /\ groupsCache = [g \in {"g1"} |-> GroupRecord(TRUE, FALSE, <<>>, 10, 3, 2, FALSE)]

NextDecay ==
    \/ \E k \in DecayKeys, io \in DecayIO :
          WarnUser(k[1], k[2], "Message flooding", io)
    \/ \E k \in DecayKeys, writeOk \in BOOLEAN :
          ClearUserWarnings(k[1], k[2], writeOk)
    \/ Tick(86400000)

SpecDecay == InitDecay /\ [][NextDecay]_vars

(***************************************************************************)
(* SpecInterleave: several spam detections of one user in one group, their *)
(* handlers taking turns at every wait                                     *)
(***************************************************************************)
InitInterleave ==
    /\ InitRest
    /\ groupsCache = [g \in {"g1"} |-> StrictGroup]

NextInterleave ==
    \E h \in Handlers :
        \/ HandlerStart(h)
        \/ \E botAdmin \in BOOLEAN, writeOk \in BOOLEAN :
              HandlerContact(h, "g1", "u1", "Message flooding", botAdmin, writeOk)
        \/ \E writeOk \in BOOLEAN :
              HandlerDelete(h, "g1", "u1", "Message flooding", writeOk)
        \/ \E dmOk \in BOOLEAN : HandlerDM(h, "g1", "u1", "Message flooding", dmOk)
        \/ HandlerAdmins(h, "g1", {"a1", "a2"})
        \/ HandlerNotice(h, "g1", TRUE)

SpecInterleave == InitInterleave /\ [][NextInterleave]_vars

(***************************************************************************)
(* SpecStats: the warning ledger of two users of one group, warned,       *)
(* cleared and summarised by the stats command                             *)
(***************************************************************************)
InitStats ==
    /\ InitRest
    /\ groupsCache = [g \in {"g1"} |-> GroupRecord(TRUE, FALSE, <<>>, 10, 3, 2, FALSE)]

NextStats ==
    \/ \E k \in DecayKeys, io \in DecayIO :
          WarnUser(k[1], k[2], "Message flooding", io)
    \/ \E k \in DecayKeys, writeOk \in BOOLEAN :
          ClearUserWarnings(k[1], k[2], writeOk)
    \/ GroupStats("g1")

SpecStats == InitStats /\ [][NextStats]_vars

(***************************************************************************)
(* SpecConfig: groups loaded at start or registered while the bot runs,    *)
(* configured by DM commands and onboarding answers, and warned            *)
(***************************************************************************)
InitConfig ==
    /\ InitRest
    /\ \E loaded \in SUBSET {"g1"} : groupsCache = [g \in loaded |-> DefaultGroup]

NextConfig ==
    \/ \E groupId \in Groups : RegisterGroup(groupId)
    \/ \E groupId \in Groups, threshold \in {0, 1, 2} : SetThreshold(groupId, threshold)
    \/ \E groupId \in Groups : ToggleLinks(groupId)
    \/ /\ last.seq < MaxConfigOps
       /\ \E groupId \in Groups, io \in DecayIO :
             WarnUser(groupId, "u1", "Message flooding", io)

SpecConfig == InitConfig /\ [][NextConfig]_vars

(***************************************************************************)
(* SpecLinks: one group whose members and admins post links and texts and  *)
(* send the !links command                                                 *)
(***************************************************************************)
LinkBodies == {BodyHello, BodyLink}

LinkSenders == {"u1", "a1"}

InitLinks ==
    /\ InitRest
    /\ \E group \in {DefaultGroup, LinkGroup} : groupsCache = [g \in {"g1"} |-> group]

NextLinks ==
    \/ \E userId \in LinkSenders, enabled \in BOOLEAN : LinksCommand("g1", userId, enabled)
    \/ /\ last.seq < MaxLinkOps
       /\ \E userId \in LinkSenders, messageBody \in LinkBodies :
             GroupMessage("g1", userId, messageBody, FALSE, FALSE, MessageIO)

SpecLinks == InitLinks /\ [][NextLinks]_vars

(***************************************************************************)
(* SpecFailures: links and texts posted in two groups that block links,    *)
(* while getContact(), the delete and the file write succeed or fail       *)
(***************************************************************************)
InitFailures ==
    /\ InitRest
    /\ groupsCache = [g \in Groups |-> LinkGroup]

NextFailures ==
    /\ last.seq < MaxFailureMessages
    /\ \E groupId \in Groups, userId \in Users, messageBody \in LinkBodies :
          GroupMessage(groupId, userId, messageBody, FALSE, FALSE, FailureIO)

SpecFailures == InitFailures /\ [][NextFailures]_vars

(***************************************************************************)
(* SpecCooldown: @everyone messages handled as concurrent calls of         *)
(* handleEveryoneCommand in two groups, with the default cooldown or a     *)
(* configured one, while half hours pass                                   *)
(***************************************************************************)
ConfiguredCooldown == EveryoneCooldown \div 2

InitCooldown ==
    /\ InitBase
    /\ everyoneModule \in EveryoneModules
    /\ \E cooldown \in {0, ConfiguredCooldown} :
          groupsCache = [g \in Groups |->
                            [DefaultGroup EXCEPT !.everyoneCooldown = cooldown]]

NextCooldown ==
    \/ \E h \in Announcers, groupId \in Groups, userId \in LinkSenders,
          linked \in BOOLEAN, resolved \in BOOLEAN :
          AnnouncerStart(h, groupId, userId, linked, linked /\ resolved)
    \/ \E h \in Announcers : AnnouncerCheck(h)
    \/ \E h \in Announcers, ok \in BOOLEAN : AnnouncerSend(h, ok)
    \/ Tick(ConfiguredCooldown)

SpecCooldown == InitCooldown /\ [][NextCooldown]_vars

(***************************************************************************)
(* SpecRouting: messages of every kind arrive at handleMessage: of the bot *)
(* itself, direct messages, commands, @everyone messages, links and texts  *)
(***************************************************************************)
RoutedGroupBodies ==
    {BodyHello, BodyLink, BodyLinksOn, BodyBangLink, BodyEveryoneLink}

RoutedDMBodies == {DMSetup, DMOne, DMToggleLinks}

RoutedMessages ==
    [n : {0}, fromMe : BOOLEAN, isDM : {FALSE}, group : {"g1"},
     from : LinkSenders, body : RoutedGroupBodies]
    \cup [n : {0}, fromMe : BOOLEAN, isDM : {TRUE}, group : {""}, from : {"a1"},
          body : RoutedDMBodies]

InitRouting ==
    /\ InitRest
    /\ groupsCache = [g \in {"g1"} |-> LinkGroup]

NextRouting ==
    \/ \E message \in RoutedMessages : Receive(message)
    \/ Deliver

SpecRouting == InitRouting /\ [][NextRouting]_vars

(***************************************************************************)
(* SpecDM: two registered groups; an admin and a member send setup         *)
(* replies and configuration commands by DM while the admin lists change   *)
(***************************************************************************)
CommandBodies ==
    {DMHello, DMSetup, DMOne, DMTwo, DMToggleLinks, DMSetThreshold,
     DMSetThresholdTwo, DMSetThresholdZero, DMSetThresholdEleven,
     DMSetThresholdWord, DMSetThresholdMixed}

CommandSenders == {"a1", "u1"}

AdminLists == {<<"a1", "a2">>, <<"a2">>}

InitDM ==
    /\ InitRest
    /\ groupsCache = [g \in Groups |-> DefaultGroup]

NextDM ==
    \/ \E adminId \in CommandSenders, messageBody \in CommandBodies :
          DirectMessage(adminId, messageBody)
    \/ \E groupId \in Groups, admins \in AdminLists :
          UpdateGroupAdmins(groupId, admins)

SpecDM == InitDM /\ [][NextDM]_vars

(***************************************************************************)
(* SpecEveryone: @everyone messages of members and admins of two groups,   *)
(* from phones and linked devices, while hours pass                        *)
(***************************************************************************)
InitEveryone ==
    /\ InitBase
    /\ everyoneModule \in EveryoneModules
    /\ groupsCache = [g \in Groups |-> DefaultGroup]

NextEveryone ==
    \/ \E groupId \in Groups, userId \in LinkSenders, linked \in BOOLEAN,
          resolved \in BOOLEAN :
          EveryoneCommand(groupId, userId, linked, linked /\ resolved)
    \/ Tick(3600000)

SpecEveryone == InitEveryone /\ [][NextEveryone]_vars

(***************************************************************************)
(* SpecOnboarding: an admin answering the onboarding guide of a group the  *)
(* bot joined, while the bot joins another group of the same admin         *)
(***************************************************************************)
OnboardingBodies ==
    {DMHello, DMOne, DMYes, DMTwo, DMSkip, DMRestart, DMQuit, DMRule, DMSetup,
     DMToggleLinks, DMSetThresholdTwo, DMRestartOnboarding}

InitOnboarding ==
    /\ InitRest
    /\ groupsCache = EmptyObject

NextOnboarding ==
    \/ \E groupId \in Groups : GroupJoin(groupId)
    \/ \E messageBody \in OnboardingBodies : DirectMessage("a1", messageBody)

SpecOnboarding == InitOnboarding /\ [][NextOnboarding]_vars

(***************************************************************************)
(* Properties                                                              *)
(***************************************************************************)
AdminAttempted(a) == \E n \in sent : n.kind = "admin" /\ n.to = a

\* C1: for every (groupId, userId), after any sequence of addWarning and
\* clearWarnings calls, failed store writes included, the warning record's
\* count equals the length of its history.
C1_CountEqualsHistoryLength ==
    \A g \in Groups, u \in Users :
        GetWarnings(warningsCache, g, u).count
            = Len(GetWarnings(warningsCache, g, u).history)

\* a second warning recorded on a key whose write has just failed
C1_Witness ==
    /\ last.op = "addWarning"
    /\ ~last.ok
    /\ GetWarnings(warningsCache, last.group, last.user).count = 2

\* C2: when the store write fails during addWarning(groupId, userId), the
\* warning is not committed: getWarnings(groupId, userId) gives the same count
\* and history after the failed call as before it.
C2_FailedWriteNotCommitted ==
    [][(last'.seq # last.seq /\ last'.op = "addWarning" /\ ~last'.ok)
          => GetWarnings(warningsCache', last'.group, last'.user)
                = GetWarnings(warningsCache, last'.group, last'.user)]_vars

\* C4: for every successfully recorded warning, thresholdReached is true
\* exactly when the resulting count is >= the group's maxWarningsBeforeAction
\* (3 when unset), and a notification is sent to the group's admins exactly
\* when thresholdReached is true; with threshold 3 the 2nd warning notifies no
\* admin and the 3rd does.
C4_ThresholdAndAdminNotification ==
    (last.op = "addWarning" /\ last.ok) =>
        LET g == last.group
            cnt == GetWarnings(warningsCache, g, last.user).count
            configured == IF g \in DOMAIN groupsCache
                          THEN groupsCache[g].maxWarningsBeforeAction ELSE 0
            thr == IF configured = 0 THEN 3 ELSE configured
        IN  /\ last.count = cnt
            /\ last.threshold = thr
            /\ last.flag = (cnt >= thr)
            /\ g \in DOMAIN groupsCache =>
                  \A a \in Range(groupsCache[g].admins) : AdminAttempted(a) = last.flag
            /\ (thr = 3 /\ cnt = 2) => ~\E n \in sent : n.kind = "admin"
            /\ (thr = 3 /\ cnt = 3 /\ g \in DOMAIN groupsCache) =>
                  \A a \in Range(groupsCache[g].admins) : AdminAttempted(a)

\* the 3rd warning of a user in a group whose threshold is 3
C4_Witness ==
    /\ last.op = "addWarning"
    /\ last.ok
    /\ last.group \in DOMAIN groupsCache
    /\ groupsCache[last.group].maxWarningsBeforeAction = 3
    /\ last.count = 3
    /\ last.flag
    /\ AdminAttempted("a1") /\ AdminAttempted("a2")

\* how many of a user's checkMessageFlood calls, the last one included, were
\* made less than windowMs before the last one
CallsWithin(windowMs) ==
    Cardinality({i \in 1..Len(floodLog[last.user]) :
                    last.at - floodLog[last.user][i] < windowMs})

\* C6: a message is never flagged as flood when, counting it, the user has
\* fewer than 15 recorded messages in the last 5 seconds, whatever the 60 s
\* total and whatever maxMessagesPerMinute is.
C6_NoFloodBelowBurst ==
    (last.op = "checkMessageFlood" /\ CallsWithin(5000) < 15) => ~last.flag

\* 14 messages in 5 s while the 60 s total has reached the limit
C6_Witness ==
    /\ last.op = "checkMessageFlood"
    /\ CallsWithin(5000) = 14
    /\ CallsWithin(60000) >= (IF last.num = 0 THEN 20 ELSE last.num)
    /\ ~last.flag

Fingerprints(cache, userId, t) == CacheGetOrEmpty(cache, userId, t)

\* C9: checkRepeatedMessage on a body shorter than 5 characters returns false
\* and leaves the user's fingerprint sequence unchanged.
C9_ShortBodyIgnored ==
    [][(last'.seq # last.seq /\ last'.op = "checkRepeatedMessage"
                             /\ Len(last'.body) < 5)
          => /\ ~last'.flag
             /\ Fingerprints(repeatedMessageCache', last'.user, now')
                   = Fingerprints(repeatedMessageCache, last'.user, now)]_vars

\* a short body sent when one more equal long text would have been flagged
C9_Witness ==
    /\ last.op = "checkRepeatedMessage"
    /\ Len(last.body) < 5
    /\ Len(Fingerprints(repeatedMessageCache, last.user, now)) >= 2
    /\ streak[last.user].len >= 2

\* C3: when recording the warning for a detected spam message fails, no
\* notification of any kind is sent for that message: no DM to the user, no
\* admin notification and no in-group notice.
C3_NoNotificationWhenWarningFails ==
    (last.op = "checkForSpam" /\ last.flag /\ ~last.ok) => sent = {}

\* the rules of checkForSpam, stated on a user's history: the calls of the
\* flood check so far and the run of equal texts so far
LinkMatches(group, messageBody) ==
    /\ group.linkBlockingEnabled
    /\ ContainsLink(messageBody)
    /\ \A k \in 1..Len(group.allowedDomains) :
          ~Includes(ToLowerCase(messageBody), ToLowerCase(group.allowedDomains[k]))

FloodWould(group, log, t) ==
    LET within(windowMs) == Cardinality({i \in 1..Len(log) : t - log[i] < windowMs}) + 1
    IN  /\ within(60000) >= (IF group.maxMessagesPerMinute = 0 THEN 20
                              ELSE group.maxMessagesPerMinute)
        /\ within(5000) >= 15

RepeatWould(group, st, messageBody, t) ==
    /\ Len(Trim(messageBody)) > 0
    /\ Len(messageBody) >= 5
    /\ StreakAfter(st, messageBody, t).fresh
          >= (IF group.maxRepeatedMessages = 0 THEN 5 ELSE group.maxRepeatedMessages)

\* C5: checkForSpam applies its rules in the order link, flood, repeated and
\* the first match wins: a message with a blocked link is classified link even
\* when it would also trip flood or repetition, and a message that trips flood
\* is classified flood even when it also completes a repetition run.
C5_FirstMatchWins ==
    [][(/\ last'.seq # last.seq
        /\ last'.op = "checkForSpam"
        /\ last'.group \in DOMAIN groupsCache
        /\ groupsCache[last'.group].spamEnabled)
          => LET group == groupsCache[last'.group]
                 u == last'.user
                 text == ~last'.media
                 link == LinkMatches(group, last'.body)
                 flood == text /\ ~last'.fwd /\ FloodWould(group, floodLog[u], now)
                 repeated == text /\ RepeatWould(group, streak[u], last'.body, now)
             IN  last'.reason = IF link THEN "link"
                                ELSE IF flood THEN "flood"
                                ELSE IF repeated THEN "repeated"
                                ELSE "notSpam"]_vars

\* a message classified link that also trips flood and repetition
C5_Witness ==
    /\ last.op = "checkForSpam"
    /\ last.reason = "link"
    /\ FloodWould(groupsCache[last.group], floodLog[last.user], now)
    /\ RepeatWould(groupsCache[last.group], streak[last.user], last.body, now)

\* C10: a media message or a forwarded message is never passed to the flood
\* check or to the repetition check: it never changes the tracker's timestamp
\* or fingerprint sequences and is never classified as flood or repeated.
C10_MediaAndForwardedSkipBothChecks ==
    [][(last'.seq # last.seq /\ last'.op = "checkForSpam"
                             /\ (last'.media \/ last'.fwd))
          => /\ messageCache' = messageCache
             /\ repeatedMessageCache' = repeatedMessageCache
             /\ last'.reason \notin {"flood", "repeated"}]_vars

\* C10 as amended: a media message is never passed to the flood check or to
\* the repetition check; a forwarded message is never passed to the flood
\* check, so it never changes the timestamp sequence and is never classified
\* flood, but a forwarded text message is passed to the repetition check.
C10_MediaSkipsBothForwardedSkipsFlood ==
    [][(last'.seq # last.seq /\ last'.op = "checkForSpam")
          => /\ last'.media =>
                  /\ messageCache' = messageCache
                  /\ repeatedMessageCache' = repeatedMessageCache
                  /\ last'.reason \notin {"flood", "repeated"}
             /\ last'.fwd =>
                  /\ messageCache' = messageCache
                  /\ last'.reason # "flood"]_vars

\* a forwarded text message that the repetition check has classified
C10_Witness ==
    /\ last.op = "checkForSpam"
    /\ last.fwd
    /\ ~last.media
    /\ last.repeatRan
    /\ last.reason = "repeated"
    /\ "u1" \notin DOMAIN messageCache

\* C11: tracker state is isolated per (groupId, userId): processing a message
\* of user U in group g2 leaves the flood window and the fingerprint sequence
\* read for U's next message in group g1 unchanged.
C11_TrackerIsolatedPerGroup ==
    [][(last'.seq # last.seq /\ last'.op = "checkForSpam" /\ last'.group = "g2")
          => /\ CacheGetOrEmpty(messageCache', last'.user, now)
                  = CacheGetOrEmpty(messageCache, last'.user, now)
             /\ CacheGetOrEmpty(repeatedMessageCache', last'.user, now)
                  = CacheGetOrEmpty(repeatedMessageCache, last'.user, now)]_vars

\* C12: when the group has no stored configuration or spam detection is off,
\* checkForSpam returns notSpam and changes nothing: no timestamp or
\* fingerprint is recorded, no warning is added, nothing is sent or deleted.
C12_DisabledChangesNothing ==
    [][(/\ last'.seq # last.seq
        /\ last'.op = "checkForSpam"
        /\ \/ last'.group \notin DOMAIN groupsCache
           \/ ~groupsCache[last'.group].spamEnabled)
          => /\ last'.reason = "notSpam"
             /\ ~last'.deleted
             /\ sent' = {}
             /\ UNCHANGED <<messageCache, repeatedMessageCache, warningsCache,
                            warningsFile>>]_vars

\* a link message in a group without configuration, after a recorded message
C12_Witness ==
    /\ last.op = "checkForSpam"
    /\ last.group \notin DOMAIN groupsCache
    /\ last.body = BodyLink
    /\ last.reason = "notSpam"
    /\ "u1" \in DOMAIN messageCache

\* some entry of the allow-list is a case-insensitive substring of the body
AllowedByList(messageBody, allowedDomains) ==
    \E k \in 1..Len(allowedDomains) :
        Includes(ToLowerCase(messageBody), ToLowerCase(allowedDomains[k]))

\* C13: with link blocking enabled, a message containing a URL-like substring
\* is classified link exactly when no entry of allowedDomains is a
\* case-insensitive substring of the body; with an empty allow-list every such
\* message is classified link.
C13_LinkUnlessAllowed ==
    [][(/\ last'.seq # last.seq
        /\ last'.op = "checkForSpam"
        /\ last'.group \in DOMAIN groupsCache
        /\ groupsCache[last'.group].spamEnabled
        /\ groupsCache[last'.group].linkBlockingEnabled
        /\ ContainsLink(last'.body))
          => (last'.reason = "link")
                = ~AllowedByList(last'.body, groupsCache[last'.group].allowedDomains)]_vars

\* a link that the allow-list lets through, matched in another letter case
C13_Witness ==
    /\ last.op = "checkForSpam"
    /\ last.group \in DOMAIN groupsCache
    /\ groupsCache[last.group] = AllowGroup
    /\ last.body = BodyLink
    /\ last.reason # "link"

\* C14: a message classified as link leaves the tracker unchanged: the
\* sender's timestamp sequence and fingerprint sequence are the same after the
\* classification as before.
C14_LinkLeavesTracker ==
    [][(last'.seq # last.seq /\ last'.op = "checkForSpam" /\ last'.reason = "link")
          => UNCHANGED <<messageCache, repeatedMessageCache>>]_vars

\* a link message of a user whose earlier message is in the tracker
C14_Witness ==
    /\ last.op = "checkForSpam"
    /\ last.reason = "link"
    /\ last.user \in DOMAIN messageCache
    /\ last.user \in DOMAIN repeatedMessageCache

\* C15: after every checkMessageFlood call at time now, every timestamp stored
\* for that user is less than 60,000 ms older than now, and the call's own
\* timestamp is in the stored sequence.
C15_StoredTimestampsInWindow ==
    [][(last'.seq # last.seq /\ last'.op = "checkMessageFlood")
          => /\ last'.user \in DOMAIN messageCache'
             /\ LET stored == messageCache'[last'.user].v
                IN  /\ \A i \in 1..Len(stored) : now - stored[i] < 60000
                    /\ \E i \in 1..Len(stored) : stored[i] = now]_vars

\* a call that drops a timestamp exactly 60,000 ms old and keeps a younger one
C15_Witness ==
    /\ last.op = "checkMessageFlood"
    /\ last.at = 60000
    /\ floodLog[last.user] = <<0, 5000, 60000>>
    /\ last.user \in DOMAIN messageCache
    /\ messageCache[last.user].v = <<5000, 60000>>

\* the last n entries of a sequence
LastN(seq, n) ==
    IF Len(seq) <= n THEN seq ELSE SubSeq(seq, Len(seq) - n + 1, Len(seq))

\* C16: in every reachable state each user's fingerprint sequence holds at
\* most 10 entries, and when an 11th is appended the oldest is evicted, so the
\* stored sequence is always the user's most recent (up to 10) fingerprints in
\* arrival order.
C16_MostRecentTen ==
    \A u \in Users :
        u \in DOMAIN repeatedMessageCache =>
            /\ Len(repeatedMessageCache[u].v) <= 10
            /\ repeatedMessageCache[u].v = LastN(streak[u].log, 10)

\* C16 as amended: each user's stored fingerprint sequence holds at most 10
\* entries, the oldest evicted when an 11th is appended, and it is the most
\* recent (up to 10) of the fingerprints recorded since the last gap of more
\* than 300 s between two recorded texts, in arrival order.
C16_MostRecentTenSinceExpiry ==
    \A u \in Users :
        u \in DOMAIN repeatedMessageCache =>
            /\ Len(repeatedMessageCache[u].v) <= 10
            /\ repeatedMessageCache[u].v
                 = LastN(SubSeq(streak[u].log, streak[u].since + 1,
                                Len(streak[u].log)), 10)

\* the 11th fingerprint has pushed the first one out
C16_Witness ==
    /\ "u1" \in DOMAIN repeatedMessageCache
    /\ Len(streak["u1"].log) = 11
    /\ streak["u1"].since = 0
    /\ streak["u1"].log[1] # streak["u1"].log[2]
    /\ repeatedMessageCache["u1"].v = Tail(streak["u1"].log)

\* Clean, Warned, AtThreshold as 0, 1, 2
DerivedState(groupId, userId, cache) ==
    LET count == GetWarnings(cache, groupId, userId).count
    IN  IF count = 0 THEN 0
        ELSE IF count < ResolveThreshold(groupsCache, groupId) THEN 1 ELSE 2

C18_ClearIdempotent ==
    [][(last'.seq # last.seq /\ last'.op = "clearWarnings")
          => LET g == last'.group
                 u == last'.user
                 had == g \in DOMAIN warningsCache /\ u \in DOMAIN warningsCache[g]
             IN  /\ GetWarnings(warningsCache', g, u) = ZeroWarnings
                 /\ (last.op = "clearWarnings" /\ last.group = g /\ last.user = u)
                       => ~last'.flag
                 /\ ~had => /\ ~last'.flag
                            /\ UNCHANGED <<warningsCache, warningsFile>>]_vars

\* a second clear of g2's only warned user, its write possible, returning false
C18_Witness ==
    /\ last.op = "clearWarnings"
    /\ last.group = "g2"
    /\ last.ok
    /\ ~last.flag
    /\ "g2" \in DOMAIN warningsCache
    /\ warningsCache["g2"] = EmptyObject

\* C20: after a warning is recorded, a DM to the user is always attempted, and
\* a failure of that DM neither removes nor decrements the recorded warning nor
\* prevents the admin notification when the threshold is reached.
C20_DMFailureHarmless ==
    (last.op = "addWarning" /\ last.ok) =>
        /\ \E n \in sent : n.kind = "dm" /\ n.to = last.user
        /\ last.count >= 1
        /\ GetWarnings(warningsCache, last.group, last.user).count = last.count
        /\ (last.flag /\ HasGroup(groupsCache, last.group))
              => \A a \in Range(groupsCache[last.group].admins) : AdminAttempted(a)

\* a warning at the threshold whose DM failed and whose admins were notified
C20_Witness ==
    /\ last.op = "addWarning"
    /\ last.ok
    /\ last.flag
    /\ \E n \in sent : n.kind = "dm" /\ ~n.delivered
    /\ AdminAttempted("a1")
    /\ GetWarnings(warningsCache, last.group, last.user).count = last.count

\* the handlers whose addWarning has run, and those it answered with a count
RecordedHandlers == {h \in Handlers : handlers[h].recorded}

ReportedCounts == {handlers[h].count : h \in {x \in RecordedHandlers : handlers[x].ok}}

\* C19: increments on one (groupId, userId) are never lost: when k spam
\* detections of one user in one group are handled with their handlers
\* interleaved at the waits, the ledger count rises by exactly k, the warnings
\* report distinct counts, and k recorded warnings report the counts 1..k.
C19_NoLostIncrement ==
    LET k == Cardinality(RecordedHandlers)
    IN  /\ GetWarnings(warningsCache, "g1", "u1").count = k
        /\ \A h1, h2 \in RecordedHandlers :
              (h1 # h2 /\ handlers[h1].ok /\ handlers[h2].ok)
                  => handlers[h1].count # handlers[h2].count
        /\ ReportedCounts \subseteq 1..k
        /\ (\A h \in RecordedHandlers : handlers[h].ok) => ReportedCounts = 1..k

\* every handler has finished; the one that started first waited for the
\* delete and was overtaken
C19_Witness ==
    /\ \A h \in Handlers : handlers[h].pc = "done" /\ handlers[h].ok
    /\ handlers[1].count = MaxHandlers
    /\ handlers[2].count = 1

\* C21: when the threshold is reached, a notification is attempted for every
\* admin of the group's admin list, whichever of the earlier admins'
\* notifications failed.
C21_EveryAdminAttempted ==
    (last.op = "addWarning" /\ last.ok /\ last.flag /\ HasGroup(groupsCache, last.group))
        => \A i \in 1..Len(groupsCache[last.group].admins) :
              \E n \in sent : n.kind = "admin" /\ n.to = groupsCache[last.group].admins[i]

\* the first admin's notification failed and the second admin's was delivered
C21_Witness ==
    /\ last.op = "addWarning"
    /\ last.flag
    /\ \E n \in sent : n.kind = "admin" /\ n.to = "a1" /\ ~n.delivered
    /\ \E n \in sent : n.kind = "admin" /\ n.to = "a2" /\ n.delivered

\* C22: with spam detection and link blocking on, an empty allow-list and
\* threshold 3, the first non-whitelisted link of user U in group G (no prior
\* warnings) is classified link, the ledger count of (G, U) becomes 1 with a
\* history entry whose reason is 'Posting unauthorized links',
\* thresholdReached is false, one DM citing count 1/3 is attempted and no
\* admin is notified.
C22_FirstLinkEndToEnd ==
    [][(/\ last'.seq # last.seq
        /\ last'.op = "checkForSpam"
        /\ last'.group \in DOMAIN groupsCache
        /\ groupsCache[last'.group].spamEnabled
        /\ groupsCache[last'.group].linkBlockingEnabled
        /\ groupsCache[last'.group].allowedDomains = <<>>
        /\ groupsCache[last'.group].maxWarningsBeforeAction = 3
        /\ ContainsLink(last'.body)
        /\ GetWarnings(warningsCache, last'.group, last'.user).count = 0)
          => /\ last'.flag
             /\ last'.reason = "link"
             /\ GetWarnings(warningsCache', last'.group, last'.user)
                  = [count |-> 1,
                     history |-> <<[reason |-> "Posting unauthorized links",
                                    timestamp |-> now]>>]
             /\ ~last'.reached
             /\ {n \in sent' : n.kind = "dm"}
                  = {[kind |-> "dm", to |-> last'.user, delivered |-> TRUE,
                      text |-> <<"Posting unauthorized links", 1, 3>>]}
             /\ ~\E n \in sent' : n.kind = "admin"]_vars

\* the first link of u1 in a group with the defaults and link blocking on
C22_Witness ==
    /\ last.op = "checkForSpam"
    /\ last.group \in DOMAIN groupsCache
    /\ groupsCache[last.group] = LinkGroup
    /\ last.reason = "link"
    /\ last.count = 1
    /\ last.threshold = 3

\* a cache that has kept every timestamp of the user and never lets go of it
NeverEvictedFlood(userId) ==
    [k \in {userId} |-> [v |-> floodLog[userId], t |-> now]]

\* C23: cache expiry is not a correctness dependency of the flood check: for
\* any sequence of calls and times, checkMessageFlood returns the same result
\* whether the user's 60-second entry is evicted at expiry or never evicted.
C23_FloodSameWithoutEviction ==
    [][(last'.seq # last.seq /\ last'.op = "checkMessageFlood")
          => last'.flag = CheckMessageFlood(NeverEvictedFlood(last'.user), last'.user,
                                            last'.num, now).flag]_vars

\* a call flagged after an earlier entry of the user had expired
C23_Witness ==
    /\ last.op = "checkMessageFlood"
    /\ last.flag
    /\ last.at = now
    /\ floodLog[last.user][1] + 60000 < now
    /\ last.user \in DOMAIN messageCache
    /\ Len(floodLog[last.user]) > Len(messageCache[last.user].v)

\* C24: cache expiry is not a correctness dependency of the repetition check:
\* for any sequence of calls and times, checkRepeatedMessage returns the same
\* result whether the user's 300-second entry is evicted at expiry or never
\* evicted.
C24_RepeatSameWithoutEviction ==
    (last.op = "checkRepeatedMessage" /\ Len(last.body) >= 5) =>
        last.flag = AllSameTail(LastN(streak[last.user].log, 10),
                                OrDefault(last.num, 5))

\* what the ledger holds for a group: its users, the sum of their counts
\* and how many have reached the group's threshold
LedgerSummary(cache, groups, groupId) ==
    LET users == IF groupId \in DOMAIN cache THEN DOMAIN cache[groupId] ELSE {}
        counts == [u \in users |-> cache[groupId][u].count]
    IN  <<Cardinality(users), SumOver(counts, users),
          Cardinality({u \in users : counts[u] >= ResolveThreshold(groups, groupId)})>>

\* C25: the group statistics return totalUsers, totalWarnings and
\* usersAtThreshold equal to the number of users with a warning record in
\* the group, the sum of their counts and the number of them at or over the
\* group's threshold, for any ledger state
C25_StatsMatchLedger ==
    last.op = "getGroupWarningStats" =>
        /\ ~last.threw
        /\ last.stats = LedgerSummary(warningsCache, groupsCache, last.group)

\* C26: a DM configuration command or onboarding answer applies only to
\* the selected group: the record of every other registered group and the
\* defaults handed to groups registered later are unchanged by it
C26_ConfigCommandFrame ==
    [][(last'.seq # last.seq /\ last'.op \in {"set_threshold", "toggle_links"})
          => /\ \A g \in DOMAIN groupsCache \ {last'.group} :
                    groupsCache'[g] = groupsCache[g]
             /\ defaultConfig' = defaultConfig]_vars

\* C27: once an admin has sent '!links on' in a group, the next link posted
\* there that no allow-list entry covers is classified as link spam, and
\* once an admin has sent '!links off' links are not classified as spam;
\* configCache holds what the last such command of the group asked for
C27_LinksCommandInForce ==
    [][(/\ last'.seq # last.seq
        /\ last'.op = "checkForSpam"
        /\ last'.group \in DOMAIN configCache
        /\ last'.group \in DOMAIN groupsCache
        /\ groupsCache[last'.group].spamEnabled
        /\ ~AllowedByList(last'.body, groupsCache[last'.group].allowedDomains)
        /\ ContainsLink(last'.body))
          => (last'.reason = "link")
                = configCache[last'.group].linkBlockingEnabled]_vars

\* C28: while a group's autoDeleteEnabled is false the bot only warns: no
\* message of that group is deleted, whatever it is classified as
C28_NoDeleteWhileAutoDeleteOff ==
    (/\ last.op = "checkForSpam"
     /\ last.group \in DOMAIN groupsCache
     /\ ~groupsCache[last.group].autoDeleteEnabled)
        => ~last.deleted

\* C29: a link posted by an admin of the group is never classified as link
\* spam, never deleted and adds no warning to that admin
C29_AdminLinkExempt ==
    [][(/\ last'.seq # last.seq
        /\ last'.op = "checkForSpam"
        /\ last'.group \in DOMAIN groupsCache
        /\ last'.user \in Range(groupsCache[last'.group].admins)
        /\ ContainsLink(last'.body))
          => /\ last'.reason # "link"
             /\ ~last'.deleted
             /\ GetWarnings(warningsCache', last'.group, last'.user)
                    = GetWarnings(warningsCache, last'.group, last'.user)]_vars

\* C30: an @everyone announcement is sent only when the sender of the
\* message is an admin or super-admin of the group; for any other sender
\* nothing is announced and the cooldown is not consumed
C30_AnnouncementOnlyByAdmin ==
    [][(last'.seq # last.seq /\ last'.op = "everyone" /\ ~IsAdmin(last'.user))
          => /\ \A n \in sent' : n.kind # "announcement"
             /\ lastUsedCache' = lastUsedCache]_vars

\* the step of the onboarding session adminId has for groupId, "cleared"
\* when there is none
StepOf(sessions, adminId, groupId) ==
    IF adminId \notin DOMAIN sessions THEN "cleared"
    ELSE IF sessions[adminId].groupId # groupId THEN "cleared"
    ELSE sessions[adminId].step

StepSuccessor ==
    {<<"welcome", "core_features">>, <<"core_features", "rules">>,
     <<"rules", "summary">>, <<"summary", "cleared">>}

\* the answers the claims name
ControlAnswers ==
    {<<"r", "e", "s", "t", "a", "r", "t">>, <<"q", "u", "i", "t">>,
     <<"e", "x", "i", "t">>, <<"s", "t", "o", "p">>}

YesAnswers == {<<"1">>, <<"y", "e", "s">>}

NoAnswers == {<<"2">>, <<"n", "o">>, <<"s", "k", "i", "p">>}

SkipAnswers == {<<"s", "k", "i", "p">>, <<"n", "e", "x", "t">>}

AnswersApplied(skipped) ==
    \A a \in Senders :
        (/\ a \in DOMAIN onboardingSessionsCache
         /\ last'.seq # last.seq /\ last'.op = "onboarding" /\ last'.user = a
         /\ onboardingSessionsCache[a].groupId \in DOMAIN groupsCache) =>
            LET groupId == onboardingSessionsCache[a].groupId
                step == onboardingSessionsCache[a].step
                text == ToLowerCase(Trim(last'.body))
            IN  /\ (step = "core_features" /\ text \in YesAnswers)
                      => groupsCache'[groupId].linkBlockingEnabled
                /\ (step = "core_features" /\ text \in NoAnswers)
                      => ~groupsCache'[groupId].linkBlockingEnabled
                /\ (step = "rules" /\ text \notin skipped)
                      => groupsCache'[groupId].rules
                            = Append(groupsCache[groupId].rules, Trim(last'.body))

\* C32 as stated: '1' or 'yes' at core_features sets linkBlockingEnabled
\* of the session's group to true and '2', 'no' or 'skip' to false; at the
\* rules step any reply other than 'skip' or 'next' appends exactly one
\* rule, as the last rule, to that group's rules
C32_AnswersApplied == [][AnswersApplied(SkipAnswers)]_vars

\* C32, amended: at the rules step any reply other than 'skip', 'next',
\* 'restart', 'quit', 'exit' or 'stop' appends exactly one rule, the
\* trimmed reply, as the last rule
C32_AnswersAppliedUnlessControl ==
    [][AnswersApplied(SkipAnswers \cup ControlAnswers)]_vars

\* link blocking switched on by ' Yes' and the rule 'Be Kind' appended
C32_Witness ==
    /\ last.op = "onboarding"
    /\ last.body = DMRule
    /\ "a1" \in DOMAIN onboardingSessionsCache
    /\ onboardingSessionsCache["a1"].step = "summary"
    /\ onboardingSessionsCache["a1"].completedSteps = <<"links_enabled", "rule_added">>
    /\ LET g == groupsCache[onboardingSessionsCache["a1"].groupId]
       IN  g.linkBlockingEnabled /\ g.rules[Len(g.rules)] = <<"B", "e", " ", "K", "i", "n", "d">>

\* C33: every group message that classify reports as spam adds exactly
\* one warning (count and history one longer) to the record of the sender
\* in that group and to no other record, also when resolving the contact
\* or deleting the message fails; a message reported notSpam adds none
C33_OneWarningPerSpamMessage ==
    [][(last'.seq # last.seq /\ last'.op = "checkForSpam") =>
          LET before == GetWarnings(warningsCache, last'.group, last'.user)
              after == GetWarnings(warningsCache', last'.group, last'.user)
          IN  /\ \A g \in Groups, u \in Senders :
                    (g # last'.group \/ u # last'.user) =>
                       GetWarnings(warningsCache', g, u) = GetWarnings(warningsCache, g, u)
              /\ IF last'.reason = "notSpam"
                 THEN after = before
                 ELSE /\ after.count = before.count + 1
                      /\ Len(after.history) = Len(before.history) + 1
                      /\ SubSeq(after.history, 1, Len(before.history)) = before.history]_vars

\* a second link of u1 in g1 warned although neither the contact was
\* resolved nor the message deleted
C33_Witness ==
    /\ last.op = "checkForSpam"
    /\ last.reason = "link"
    /\ ~last.contact
    /\ ~last.deleted
    /\ GetWarnings(warningsCache, last.group, last.user).count = 2

\* the DM commands that write to the configuration of the selected group
ConfigCommandOps == {"set_threshold", "toggle_links"}

\* C34: a DM configuration command changes the configuration of a group
\* only if its sender is in the admin list of that group when the command
\* is handled
C34_CommandOnlyByListedAdmin ==
    [][(last'.seq # last.seq /\ last'.op \in ConfigCommandOps) =>
          \A g \in DOMAIN groupsCache :
             groupsCache'[g] # groupsCache[g] =>
                \E i \in 1..Len(groupsCache[g].admins) :
                   groupsCache[g].admins[i] = last'.user]_vars

\* C35: whenever clearWarnings(groupId, userId) returns false the ledger
\* is as it was: getWarnings(groupId, userId) gives the same count and
\* history after the call as before it, also when the write of the store
\* fails
C35_FalseClearLeavesLedger ==
    [][(last'.seq # last.seq /\ last'.op = "clearWarnings" /\ ~last'.flag) =>
          GetWarnings(warningsCache', last'.group, last'.user)
             = GetWarnings(warningsCache, last'.group, last'.user)]_vars

\* the calls whose trigger passed the cooldown test: the announcement of
\* each is sent, or being sent, for the time a.at read at everyone.js 60
Announced(a) == a.pc \in {"send", "sent"}

\* the cooldown c of a group, positive or 0 for none
GroupCooldown(groupId) == CooldownOf(everyoneModule, groupsCache, groupId)

\* a call that, at time t, is inside the cooldown an announcement in its
\* group began
InsideCooldown(a, t) ==
    \E h \in Announcers :
       /\ announcers[h].pc \in {"send", "sent", "failed"}
       /\ announcers[h].group = a.group
       /\ GroupCooldown(a.group) > 0
       /\ t - announcers[h].at < GroupCooldown(a.group)

\* C36: in a group with a positive cooldown c the triggers of two
\* announcements are never handled less than c ms apart, however the
\* calls of the handler interleave; a trigger handled inside the cooldown
\* sends no announcement and leaves the time the cooldown began unchanged
C36_CooldownHolds ==
    /\ [](\A h1, h2 \in Announcers :
            (/\ h1 # h2
             /\ Announced(announcers[h1]) /\ Announced(announcers[h2])
             /\ announcers[h1].group = announcers[h2].group
             /\ GroupCooldown(announcers[h1].group) > 0
             /\ announcers[h1].at <= announcers[h2].at) =>
                announcers[h2].at - announcers[h1].at
                   >= GroupCooldown(announcers[h1].group))
    /\ [][\A h \in Announcers :
            (/\ announcers[h].pc = "isAdmin"
             /\ announcers'[h].pc # "isAdmin"
             /\ InsideCooldown(announcers[h], now)) =>
                /\ announcers'[h].pc \in {"cooldown", "refused"}
                /\ lastUsedCache' = lastUsedCache
                /\ \A m \in sent' : m.kind # "announcement"]_vars

\* a1's second trigger in g1, started while the first call still waited,
\* refused for the cooldown of one hour
C36_Witness ==
    \E h1, h2 \in Announcers :
       /\ announcers[h1].group = announcers[h2].group
       /\ announcers[h1].pc = "sent"
       /\ announcers[h2].pc = "cooldown"
       /\ announcers[h2].at = announcers[h1].at
       /\ GroupCooldown(announcers[h1].group) = EveryoneCooldown

\* a text that is a number: digits only, after an optional sign
IsNumeral(s) ==
    LET u == IF s # <<>> /\ s[1] \in {"+", "-"} THEN Tail(s) ELSE s
    IN  u # <<>> /\ \A i \in 1..Len(u) : u[i] \in DigitChars

\* the argument of a command body: the second of its words, <<>> if none
ArgumentOf(messageBody) == SecondPart(Trim(messageBody))

\* C37: maxWarningsBeforeAction of every group stays an integer in 1..10
\* under set_threshold commands, and a set_threshold whose argument is
\* missing, not a number or not in 1..10, or whose sender has no selected
\* group, leaves the configuration of every group unchanged
C37_ThresholdCommandGuarded ==
    /\ [](\A g \in DOMAIN groupsCache :
            groupsCache[g].maxWarningsBeforeAction \in 1..10)
    /\ [][(last'.seq # last.seq /\ last'.op = "set_threshold") =>
            LET arg == ArgumentOf(last'.body)
            IN  (\/ arg = <<>>
                 \/ ~IsNumeral(arg)
                 \/ ParseInt(arg).value \notin 1..10
                 \/ last'.user \notin DOMAIN adminSessionsCache) =>
                   groupsCache' = groupsCache]_vars

\* a body that starts with '!'
StartsWithBang(messageBody) ==
    Len(messageBody) >= 1 /\ Head(messageBody) = "!"

\* a body that holds '@everyone' in any mix of cases
HoldsEveryone(messageBody) ==
    \E i \in 1..Len(messageBody) :
       /\ i + 8 <= Len(messageBody)
       /\ ToLowerCase(SubSeq(messageBody, i, i + 8))
             = <<"@", "e", "v", "e", "r", "y", "o", "n", "e">>

\* C38: handling a message of the bot itself, a direct message, a group
\* message whose body starts with '!' or a group message that holds
\* '@everyone' leaves the timestamp and fingerprint sequences of the
\* tracker and the warning ledger, in memory and on file, unchanged
C38_UnclassifiedLeaveTrackerAndLedger ==
    [][(/\ last'.seq # last.seq
        /\ received.n = last'.seq
        /\ \/ received.fromMe
           \/ received.isDM
           \/ StartsWithBang(received.body)
           \/ HoldsEveryone(received.body)) =>
          /\ messageCache' = messageCache
          /\ repeatedMessageCache' = repeatedMessageCache
          /\ warningsCache' = warningsCache
          /\ warningsFile' = warningsFile]_vars

\* u1, warned for a link before, posts '@Everyone x.io/spam' and is only
\* told that admins alone may announce
C38_Witness ==
    /\ last.op = "everyone"
    /\ received.n = last.seq
    /\ received.body = BodyEveryoneLink
    /\ received.from = "u1"
    /\ GetWarnings(warningsCache, "g1", "u1").count = 1
    /\ "u1" \in DOMAIN messageCache

\* the N of a call: maxRepeated, 5 when unset
CheckCountOf(maxRepeated) == IF maxRepeated = 0 THEN 5 ELSE maxRepeated

CommandResults ==
    {"setup", "select", "set_threshold", "toggle_links", "restart_onboarding"}

\* C40: while an onboarding session exists for an admin every direct
\* message of that admin is consumed by the onboarding flow: no DM command
\* and no group selection is executed, and the admin's selected group and
\* the group of the session stay as they are
C40_SessionConsumesEveryDM ==
    [][\A a \in Senders :
          (/\ a \in DOMAIN onboardingSessionsCache
           /\ last'.seq # last.seq
           /\ last'.user = a
           /\ last'.op \in CommandResults \cup {"onboarding", "ignored"}) =>
             /\ last'.op = "onboarding"
             /\ adminSessionsCache' = adminSessionsCache
             /\ (a \in DOMAIN onboardingSessionsCache') =>
                   onboardingSessionsCache'[a].groupId
                      = onboardingSessionsCache[a].groupId]_vars

\* 'set_threshold 2' sent at the rules step of g2's guide while g1 is
\* registered too: taken as the first rule of g2, every threshold still 3
C40_Witness ==
    /\ last.op = "onboarding"
    /\ last.body = DMSetThresholdTwo
    /\ DOMAIN groupsCache = {"g1", "g2"}
    /\ \A g \in DOMAIN groupsCache : groupsCache[g].maxWarningsBeforeAction = 3
    /\ last.user \in DOMAIN onboardingSessionsCache
    /\ onboardingSessionsCache[last.user].step = "summary"
    /\ onboardingSessionsCache[last.user].groupId = "g2"
    /\ Len(groupsCache["g2"].rules) = 5

====
